---- MODULE Spec2Model ----
(***************************************************************************)
(* State-machine model of the marketplace contract                         *)
(* (src/contracts/marketplace/src/lib.rs) together with the two            *)
(* collaborators it calls: the payment token and the asset registry        *)
(* (src/contracts/achievement_nft/src/lib.rs), and of the daily rewards    *)
(* contract (src/contracts/daily_rewards/src/lib.rs).                      *)
(*                                                                         *)
(* A contract call that panics is rolled back by the host, so a call that  *)
(* fails is no step of the model: every condition under which the code     *)
(* panics (or a collaborator does) is part of the action's guard.          *)
(***************************************************************************)
EXTENDS Integers, Sequences, FiniteSets, TLC

\* ------------------------------------------------------------------
\* Bounds of the model
\* ------------------------------------------------------------------
MaxListings == 2
MaxOffers == 2
MaxCounters == 1
MaxPrice == 2
InitBalance == 2
MaxTime == 2
MaxProbePrice == 12
MaxRelistings == 4
MaxRelistOffers == 4
MaxRelistCounters == 2
MaxPushes == 4
MaxDuration == 1
MaxConfigListings == 1
MaxConfigOffers == 1
MaxRewardDays == 3
MaxMints == 4
MaxFeedbackTime == 3
MaxFeedbacks == 3

\* ------------------------------------------------------------------
\* Program constants
\* ------------------------------------------------------------------
BpsDenominator == 10000
MaxBps == 10000
PriceHistoryCap == 100
DAY_IN_LEDGERS == 17280
GRACE_PERIOD_LEDGERS == 8640
MAX_STREAK_DAYS == 30

\* ------------------------------------------------------------------
\* Principals, assets and input sets
\* ------------------------------------------------------------------
Users == {"u1", "u2", "u3"}
Admin == "admin"
FeeRecipient == "fee"
Creator == "cr"
Contract == "mkt"
NoAddress == "none"
Accounts == Users \cup {FeeRecipient, Creator, Contract}

TokenIds == {1}
FirstOwner == "u1"
Traders == {"u1", "u2"}
RelistPrice == 1

FeeBpsInputs == {0, 5000, 10001}
\* <<creator, royalty_bps>> of a listing
ListingTermsInputs == {<<NoAddress, 5000>>, <<Creator, 5000>>, <<Creator, 10001>>}
PriceInputs == 0..MaxPrice
ListingPriceInputs == {0, MaxPrice}
\* None of an Option<u32> or Option<u64> argument or field
NoValue == -1
NoExpiration == NoValue
ExpirationInputs == {NoExpiration}
TimedExpirationInputs == {NoExpiration} \cup 0..MaxTime
ProbeBps == {0, 1, 250, 500, 3333, 5000, 9999, 10000}
ProbePrices == (1..MaxProbePrice) \cup {1000, 99999}
ConfigAdmins == {Admin, "admin2"}
ConfigCallers == ConfigAdmins \cup {FirstOwner}
ConfigRecipients == {FeeRecipient, "u3"}
ConfigFeeInputs == {0, 250, 10000, 10001}
DurationInputs == 0..MaxDuration
HistoryLengths == {0, PriceHistoryCap - 2, PriceHistoryCap - 1, PriceHistoryCap}
HistoryPriceInputs == {1001, 1002, 1003}

\* Daily rewards: the users, the ledgers at which a life of the contract starts,
\* the streaks a long-standing user starts with, and by how many ledgers a call
\* comes after the previous one.
RewardUsers == {"u1", "u2"}
VeteranLedger == MAX_STREAK_DAYS * DAY_IN_LEDGERS
StartSequences == {0, 1, VeteranLedger}
VeteranStreaks == {MAX_STREAK_DAYS - 2, MAX_STREAK_DAYS - 1, MAX_STREAK_DAYS}
LedgerSteps == {0, 1, DAY_IN_LEDGERS - 1, DAY_IN_LEDGERS, DAY_IN_LEDGERS + 1,
                DAY_IN_LEDGERS + GRACE_PERIOD_LEDGERS,
                DAY_IN_LEDGERS + GRACE_PERIOD_LEDGERS + 1}

\* Achievement NFT: the token ids the registry assigns within the bound
AchievementIds == 1..MaxMints

\* Reputation: the players, the min_feedback_gap the contract is set up with and
\* the weight of a feedback
Players == {"u1", "u2", "u3"}
FeedbackGapInputs == {0, 1, 2}
WeightInputs == {2}

ListingIds == 1..MaxListings
OfferIds == 1..MaxOffers
CounterIds == 1..MaxCounters

VARIABLES
    config,                 \* DataKey::Config
    listings,               \* DataKey::Listing(id)
    listing_count,          \* DataKey::ListingCount
    offers,                 \* DataKey::Offer(id)
    offer_count,            \* DataKey::OfferCount
    counter_offers,         \* DataKey::CounterOffer(id)
    counter_offer_count,    \* DataKey::CounterOfferCount
    offers_by_listing,      \* DataKey::OffersByListing(id)
    counter_offers_by_offer,\* DataKey::CounterOffersByOffer(id)
    listings_by_seller,     \* DataKey::ListingsBySeller(address)
    listings_by_asset,      \* DataKey::ListingsByAsset(contract, token_id)
    active_listings,        \* DataKey::ActiveListings
    price_history,          \* DataKey::PriceHistory(contract, token_id)
    balance,                \* the payment token's balances
    owner,                  \* the asset registry's owner of each token id
    now,                    \* env.ledger().timestamp()
    probe,                  \* input and result of a pure function under test
    events,                 \* the events published under the marketplace's id
    user_streak,            \* daily rewards: DataKey::UserStreak(address)
    sequence,               \* env.ledger().sequence()
    reward,                 \* daily rewards: what the last claim_daily returned
    nft_admin,              \* achievement NFT: DataKey::Admin
    next_token_id,          \* achievement NFT: DataKey::NextTokenId
    supply_counter,           \* achievement NFT: DataKey::TotalSupply
    achievement,            \* achievement NFT: DataKey::Achievement(token_id)
    owner_collection,       \* achievement NFT: DataKey::OwnerCollection(address)
    reputation_config,      \* reputation: DataKey::Config
    feedback,               \* reputation: DataKey::Feedback(to, i), i < FeedbackCount(to)
    reputation              \* reputation: DataKey::Reputation(player)

vars == <<config, listings, listing_count, offers, offer_count, counter_offers,
          counter_offer_count, offers_by_listing, counter_offers_by_offer,
          listings_by_seller, listings_by_asset, active_listings, price_history,
          balance, owner, now, probe, listings_by_seller, listings_by_asset,
          events, user_streak, sequence, reward, nft_admin, next_token_id,
          supply_counter, achievement, owner_collection, reputation_config, feedback,
          reputation>>

\* The state of the daily rewards contract
rewards == <<user_streak, sequence, reward>>

\* The state of the achievement NFT contract
registry == <<nft_admin, next_token_id, supply_counter, achievement, owner_collection>>

\* The state of the reputation contract
reputation_state == <<reputation_config, feedback, reputation>>

storage == <<config, listings, listing_count, offers, offer_count, counter_offers,
             counter_offer_count, offers_by_listing, counter_offers_by_offer,
             listings_by_seller, listings_by_asset, active_listings, price_history>>

\* ------------------------------------------------------------------
\* Arithmetic
\* ------------------------------------------------------------------
\* Rust's integer division: truncation toward zero.
TruncDiv(a, b) ==
    IF a >= 0 THEN a \div b ELSE -((-a) \div b)

\* A variant that derives the seller's share from the remaining basis points.
calculate_payouts_leaky(price, fee_bps, royalty_bps) ==
    LET fee_amount == TruncDiv(price * fee_bps, BpsDenominator)
        royalty_amount == TruncDiv(price * royalty_bps, BpsDenominator)
        seller_amount == TruncDiv(price * (BpsDenominator - fee_bps - royalty_bps), BpsDenominator)
    IN  <<seller_amount, fee_amount, royalty_amount>>

calculate_payouts(price, fee_bps, royalty_bps) ==
    LET fee_amount == TruncDiv(price * fee_bps, BpsDenominator)
        royalty_amount == TruncDiv(price * royalty_bps, BpsDenominator)
        seller_amount == price - fee_amount - royalty_amount
    IN  <<seller_amount, fee_amount, royalty_amount>>

\* ------------------------------------------------------------------
\* Collaborators. A call environment e carries the state the call has
\* produced so far: ok (no panic yet), bal, owner and offers.
\* ------------------------------------------------------------------
Env0 == [ok |-> TRUE, bal |-> balance, owner |-> owner, offers |-> offers]

\* token::Client::transfer: panics on a negative amount or an insufficient balance.
TokenTransfer(e, from, to, amount) ==
    IF ~e.ok \/ amount < 0 \/ e.bal[from] < amount
    THEN [e EXCEPT !.ok = FALSE]
    ELSE LET debited == [e.bal EXCEPT ![from] = e.bal[from] - amount]
             credited == [debited EXCEPT ![to] = debited[to] + amount]
         IN  [e EXCEPT !.bal = credited]

\* The registry's transfer: panics unless `from` is the token's owner.
AssetTransfer(e, from, to, token_id) ==
    IF ~e.ok \/ e.owner[token_id] # from
    THEN [e EXCEPT !.ok = FALSE]
    ELSE [e EXCEPT !.owner = [e.owner EXCEPT ![token_id] = to]]

verify_asset_ownership(who, token_id) == owner[token_id] = who

transfer_asset_to_contract(e, from, token_id) == AssetTransfer(e, from, Contract, token_id)

transfer_asset_from_contract(e, to, token_id) == AssetTransfer(e, Contract, to, token_id)

\* ------------------------------------------------------------------
\* Initial state: the contract is deployed and not yet initialized.
\* ------------------------------------------------------------------
NoConfig == [set |-> FALSE, admin |-> NoAddress, fee_recipient |-> NoAddress, fee_bps |-> 0,
             min_listing_duration |-> 0, max_listing_duration |-> 0]
NoProbe == [fn |-> "none"]

InitStorageFor(listing_ids, offer_ids) ==
    /\ config = NoConfig
    /\ listings = <<>>
    /\ listing_count = 0
    /\ offers = <<>>
    /\ offer_count = 0
    /\ counter_offers = <<>>
    /\ counter_offer_count = 0
    /\ offers_by_listing = [l \in listing_ids |-> <<>>]
    /\ counter_offers_by_offer = [o \in offer_ids |-> <<>>]
    /\ listings_by_seller = [u \in Users |-> <<>>]
    /\ listings_by_asset = [t \in TokenIds |-> <<>>]
    /\ active_listings = <<>>
    /\ price_history = [t \in TokenIds |-> <<>>]
    /\ balance = [a \in Accounts |-> IF a \in Users THEN InitBalance ELSE 0]
    /\ owner = [t \in TokenIds |-> FirstOwner]
    /\ now = 0
    /\ events = <<>>

\* get_user_streak's default for a user without a record
NoStreak == [current_streak |-> 0, last_claim_ledger |-> 0, total_logins |-> 0,
             last_claim_hash |-> 0]

\* The daily rewards contract before any claim
NoRewards ==
    /\ user_streak = [u \in RewardUsers |-> NoStreak]
    /\ sequence = 0
    /\ reward = 0

\* No DataKey::Achievement entry under a token id (of an Achievement the model
\* keeps the owner)
NoAchievement == [owner |-> NoAddress]

\* The achievement NFT contract before initialize
NoRegistry ==
    /\ nft_admin = NoAddress
    /\ next_token_id = NoValue
    /\ supply_counter = NoValue
    /\ achievement = [token_id \in AchievementIds |-> NoAchievement]
    /\ owner_collection = [a \in Users |-> <<>>]

\* No DataKey::Config entry in the reputation contract
NoReputationConfig == [set |-> FALSE, min_feedback_gap |-> 0]

\* get_or_create_reputation's default for a player without a record (of a
\* ReputationScore the model keeps what record_feedback writes)
NoScore == [stored |-> FALSE, total_score |-> 0, positive_feedback |-> 0,
            negative_feedback |-> 0, last_activity |-> 0]

\* The reputation contract before initialize
NoReputation ==
    /\ reputation_config = NoReputationConfig
    /\ feedback = [p \in Players |-> <<>>]
    /\ reputation = [p \in Players |-> NoScore]

InitStorage == InitStorageFor(ListingIds, OfferIds)

Init ==
    /\ InitStorage
    /\ NoRewards
    /\ NoRegistry
    /\ NoReputation
    /\ probe = NoProbe

\* ------------------------------------------------------------------
\* Storage helpers
\* ------------------------------------------------------------------
Put(map, key, value) == (key :> value) @@ map

Has(map, key) == key \in DOMAIN map

\* Total number of ids ever appended to an append-only index: the number of
\* records created so far, which initialize's reset of the counters leaves alone.
RECURSIVE TotalLen(_, _)
TotalLen(index, keys) ==
    IF keys = {} THEN 0
    ELSE LET k == CHOOSE x \in keys : TRUE
         IN  Len(index[k]) + TotalLen(index, keys \ {k})

Created(index) == TotalLen(index, DOMAIN index)

\* Vec::first_index_of followed by Vec::remove
RECURSIVE RemoveFirst(_, _)
RemoveFirst(seq, x) ==
    IF seq = <<>> THEN <<>>
    ELSE IF Head(seq) = x THEN Tail(seq)
    ELSE <<Head(seq)>> \o RemoveFirst(Tail(seq), x)

remove_from_active_listings(active, listing_id) == RemoveFirst(active, listing_id)

\* A variant that, once the history is full, drops the newest price.
record_price_history_keeps_oldest(history, price) ==
    LET pushed == Append(history, price)
    IN  IF Len(pushed) > PriceHistoryCap
        THEN SubSeq(pushed, 1, PriceHistoryCap)
        ELSE pushed

record_price_history(history, price) ==
    LET pushed == Append(history, price)
    IN  IF Len(pushed) > PriceHistoryCap
        THEN SubSeq(pushed, Len(pushed) - PriceHistoryCap + 1, Len(pushed))
        ELSE pushed

\* The loop of refund_all_offers and refund_other_offers over the listing's
\* offer index, from position i on; `skip` is the accepted offer (0: none).
RECURSIVE RefundLoop(_, _, _, _)
RefundLoop(e, ids, i, skip) ==
    IF i > Len(ids) THEN e
    ELSE LET offer_id == ids[i]
             offer == e.offers[offer_id]
         IN  IF offer_id # skip /\ Has(e.offers, offer_id) /\ offer.status = "Open"
             THEN LET paid == TokenTransfer(e, Contract, offer.buyer, offer.price)
                      stored == [paid EXCEPT !.offers = Put(paid.offers, offer_id,
                                                            [offer EXCEPT !.status = "Cancelled"])]
                  IN  RefundLoop(stored, ids, i + 1, skip)
             ELSE RefundLoop(e, ids, i + 1, skip)

refund_all_offers(e, listing_id) ==
    RefundLoop(e, offers_by_listing[listing_id], 1, 0)

\* A variant that, like buy, settles without refunding the other offers.
refund_other_offers_skipped(e, listing_id, accepted_offer_id) == e

refund_other_offers(e, listing_id, accepted_offer_id) ==
    RefundLoop(e, offers_by_listing[listing_id], 1, accepted_offer_id)

\* A variant that hands the royalty of a listing without creator to the seller.
Distribute_royalty_to_seller(e, seller, listing, payouts) ==
    LET e1 == TokenTransfer(e, Contract, seller, payouts[1])
        e2 == IF payouts[2] > 0
              THEN TokenTransfer(e1, Contract, config.fee_recipient, payouts[2])
              ELSE e1
        e3 == IF payouts[3] > 0
              THEN TokenTransfer(e2, Contract,
                                 IF listing.creator # NoAddress THEN listing.creator ELSE seller,
                                 payouts[3])
              ELSE e2
    IN  e3

\* The three payout legs of buy, accept_offer and accept_counter_offer.
Distribute(e, seller, listing, payouts) ==
    LET e1 == TokenTransfer(e, Contract, seller, payouts[1])
        e2 == IF payouts[2] > 0
              THEN TokenTransfer(e1, Contract, config.fee_recipient, payouts[2])
              ELSE e1
        e3 == IF payouts[3] > 0 /\ listing.creator # NoAddress
              THEN TokenTransfer(e2, Contract, listing.creator, payouts[3])
              ELSE e2
    IN  e3

\* ------------------------------------------------------------------
\* Entry points
\* ------------------------------------------------------------------
\* A variant that can be called again once a config is stored.
initialize_again(admin, fee_recipient, fee_bps, min_listing_duration, max_listing_duration) ==
    /\ fee_bps <= MaxBps
    /\ config' = [set |-> TRUE, admin |-> admin, fee_recipient |-> fee_recipient,
                  fee_bps |-> fee_bps, min_listing_duration |-> min_listing_duration,
                  max_listing_duration |-> max_listing_duration]
    /\ listing_count' = 0
    /\ offer_count' = 0
    /\ counter_offer_count' = 0
    /\ UNCHANGED <<listings, offers, counter_offers, offers_by_listing,
                   counter_offers_by_offer, active_listings, price_history,
                   balance, owner, now, probe, events, rewards, registry, reputation_state, listings_by_seller, listings_by_asset>>

initialize(admin, fee_recipient, fee_bps, min_listing_duration, max_listing_duration) ==
    /\ ~config.set
    /\ fee_bps <= MaxBps
    /\ config' = [set |-> TRUE, admin |-> admin, fee_recipient |-> fee_recipient,
                  fee_bps |-> fee_bps, min_listing_duration |-> min_listing_duration,
                  max_listing_duration |-> max_listing_duration]
    /\ listing_count' = 0
    /\ offer_count' = 0
    /\ counter_offer_count' = 0
    /\ UNCHANGED <<listings, offers, counter_offers, offers_by_listing,
                   counter_offers_by_offer, active_listings, price_history,
                   balance, owner, now, probe, events, rewards, registry, reputation_state, listings_by_seller, listings_by_asset>>

\* A variant that stores whatever fee it is given.
update_config_any_fee(caller, fee_recipient, fee_bps, min_listing_duration, max_listing_duration) ==
    /\ config.set
    /\ caller = config.admin
    /\ config' = [config EXCEPT
                    !.fee_recipient = IF fee_recipient # NoAddress THEN fee_recipient ELSE @,
                    !.fee_bps = IF fee_bps # NoValue THEN fee_bps ELSE @,
                    !.min_listing_duration = IF min_listing_duration # NoValue
                                             THEN min_listing_duration ELSE @,
                    !.max_listing_duration = IF max_listing_duration # NoValue
                                             THEN max_listing_duration ELSE @]
    /\ UNCHANGED <<listings, listing_count, offers, offer_count, counter_offers,
                   counter_offer_count, offers_by_listing, counter_offers_by_offer,
                   active_listings, price_history, balance, owner, now, probe, events, rewards, registry, reputation_state, listings_by_seller, listings_by_asset>>

\* A variant that does not ask for the admin's authorization.
update_config_any_caller(caller, fee_recipient, fee_bps, min_listing_duration, max_listing_duration) ==
    /\ config.set
    /\ fee_bps # NoValue => fee_bps <= MaxBps
    /\ config' = [config EXCEPT
                    !.fee_recipient = IF fee_recipient # NoAddress THEN fee_recipient ELSE @,
                    !.fee_bps = IF fee_bps # NoValue THEN fee_bps ELSE @,
                    !.min_listing_duration = IF min_listing_duration # NoValue
                                             THEN min_listing_duration ELSE @,
                    !.max_listing_duration = IF max_listing_duration # NoValue
                                             THEN max_listing_duration ELSE @]
    /\ UNCHANGED <<listings, listing_count, offers, offer_count, counter_offers,
                   counter_offer_count, offers_by_listing, counter_offers_by_offer,
                   active_listings, price_history, balance, owner, now, probe, events, rewards, registry, reputation_state, listings_by_seller, listings_by_asset>>

\* An argument of NoAddress or NoValue stands for None.
update_config(caller, fee_recipient, fee_bps, min_listing_duration, max_listing_duration) ==
    /\ config.set
    /\ caller = config.admin
    /\ fee_bps # NoValue => fee_bps <= MaxBps
    /\ config' = [config EXCEPT
                    !.fee_recipient = IF fee_recipient # NoAddress THEN fee_recipient ELSE @,
                    !.fee_bps = IF fee_bps # NoValue THEN fee_bps ELSE @,
                    !.min_listing_duration = IF min_listing_duration # NoValue
                                             THEN min_listing_duration ELSE @,
                    !.max_listing_duration = IF max_listing_duration # NoValue
                                             THEN max_listing_duration ELSE @]
    /\ UNCHANGED <<listings, listing_count, offers, offer_count, counter_offers,
                   counter_offer_count, offers_by_listing, counter_offers_by_offer,
                   active_listings, price_history, balance, owner, now, probe, events, rewards, registry, reputation_state, listings_by_seller, listings_by_asset>>

\* A variant that stores whatever royalty it is given.
create_listing_any_royalty(seller, token_id, price, creator, royalty_bps) ==
    /\ price > 0
    /\ verify_asset_ownership(seller, token_id)
    /\ LET e == transfer_asset_to_contract(Env0, seller, token_id)
           listing_id == listing_count + 1
           listing == [listing_id |-> listing_id, seller |-> seller, asset |-> token_id,
                       price |-> price, status |-> "Active", creator |-> creator,
                       royalty_bps |-> royalty_bps]
       IN  /\ e.ok
           /\ owner' = e.owner
           /\ listing_count' = listing_id
           /\ listings' = Put(listings, listing_id, listing)
           /\ listings_by_seller' = [listings_by_seller EXCEPT ![seller] = Append(@, listing_id)]
           /\ listings_by_asset' = [listings_by_asset EXCEPT ![token_id] = Append(@, listing_id)]
           /\ active_listings' = Append(active_listings, listing_id)
    /\ UNCHANGED <<config, offers, offer_count, counter_offers, counter_offer_count,
                   offers_by_listing, counter_offers_by_offer, price_history,
                   balance, now, probe, events, rewards, registry, reputation_state>>

create_listing(seller, token_id, price, creator, royalty_bps) ==
    /\ price > 0
    /\ royalty_bps <= MaxBps
    /\ verify_asset_ownership(seller, token_id)
    /\ LET e == transfer_asset_to_contract(Env0, seller, token_id)
           listing_id == listing_count + 1
           listing == [listing_id |-> listing_id, seller |-> seller, asset |-> token_id,
                       price |-> price, status |-> "Active", creator |-> creator,
                       royalty_bps |-> royalty_bps]
       IN  /\ e.ok
           /\ owner' = e.owner
           /\ listing_count' = listing_id
           /\ listings' = Put(listings, listing_id, listing)
           /\ listings_by_seller' = [listings_by_seller EXCEPT ![seller] = Append(@, listing_id)]
           /\ listings_by_asset' = [listings_by_asset EXCEPT ![token_id] = Append(@, listing_id)]
           /\ active_listings' = Append(active_listings, listing_id)
    /\ UNCHANGED <<config, offers, offer_count, counter_offers, counter_offer_count,
                   offers_by_listing, counter_offers_by_offer, price_history,
                   balance, now, probe, events, rewards, registry, reputation_state>>

buy(buyer, listing_id) ==
    /\ Has(listings, listing_id)
    /\ listings[listing_id].status = "Active"
    /\ listings[listing_id].seller # buyer
    /\ config.set
    /\ LET listing == listings[listing_id]
           payouts == calculate_payouts(listing.price, config.fee_bps, listing.royalty_bps)
           e1 == TokenTransfer(Env0, buyer, Contract, listing.price)
           e2 == Distribute(e1, listing.seller, listing, payouts)
           e3 == transfer_asset_from_contract(e2, buyer, listing.asset)
       IN  /\ e3.ok
           /\ balance' = e3.bal
           /\ owner' = e3.owner
           /\ listings' = Put(listings, listing_id, [listing EXCEPT !.status = "Sold"])
           /\ active_listings' = remove_from_active_listings(active_listings, listing_id)
           /\ price_history' = [price_history EXCEPT ![listing.asset] =
                                    record_price_history(@, listing.price)]
    /\ UNCHANGED <<config, listing_count, offers, offer_count, counter_offers,
                   counter_offer_count, offers_by_listing, counter_offers_by_offer,
                   now, probe, events, rewards, registry, reputation_state, listings_by_seller, listings_by_asset>>

\* A variant whose writes survive a failed escrow transfer: the offer is stored
\* and indexed although no funds moved.
create_offer_keeps_writes(buyer, listing_id, price, expiration_time) ==
    /\ Has(listings, listing_id)
    /\ listings[listing_id].status = "Active"
    /\ listings[listing_id].seller # buyer
    /\ price > 0
    /\ expiration_time # NoExpiration => expiration_time > now
    /\ LET offer_id == offer_count + 1
           offer == [offer_id |-> offer_id, listing_id |-> listing_id, buyer |-> buyer,
                     price |-> price, status |-> "Open",
                     expiration_time |-> expiration_time]
           e == TokenTransfer(Env0, buyer, Contract, price)
       IN  /\ offer_count' = offer_id
           /\ offers' = Put(offers, offer_id, offer)
           /\ offers_by_listing' = [offers_by_listing EXCEPT ![listing_id] = Append(@, offer_id)]
           /\ balance' = e.bal
    /\ UNCHANGED <<config, listings, listing_count, counter_offers, counter_offer_count,
                   counter_offers_by_offer, active_listings, price_history, owner,
                   now, probe, events, rewards, registry, reputation_state, listings_by_seller, listings_by_asset>>

create_offer(buyer, listing_id, price, expiration_time) ==
    /\ Has(listings, listing_id)
    /\ listings[listing_id].status = "Active"
    /\ listings[listing_id].seller # buyer
    /\ price > 0
    /\ expiration_time # NoExpiration => expiration_time > now
    /\ LET offer_id == offer_count + 1
           offer == [offer_id |-> offer_id, listing_id |-> listing_id, buyer |-> buyer,
                     price |-> price, status |-> "Open",
                     expiration_time |-> expiration_time]
           e == TokenTransfer(Env0, buyer, Contract, price)
       IN  /\ e.ok
           /\ offer_count' = offer_id
           /\ offers' = Put(offers, offer_id, offer)
           /\ offers_by_listing' = [offers_by_listing EXCEPT ![listing_id] = Append(@, offer_id)]
           /\ balance' = e.bal
    /\ UNCHANGED <<config, listings, listing_count, counter_offers, counter_offer_count,
                   counter_offers_by_offer, active_listings, price_history, owner,
                   now, probe, events, rewards, registry, reputation_state, listings_by_seller, listings_by_asset>>

\* The collaborator calls of accept_offer, in order: the payouts, the asset's
\* transfer, the offer's new status and the refunds of the other offers.
accept_offer_calls(seller, offer_id) ==
    LET offer == offers[offer_id]
        listing == listings[offer.listing_id]
        payouts == calculate_payouts(offer.price, config.fee_bps, listing.royalty_bps)
        e1 == Distribute(Env0, seller, listing, payouts)
        e2 == transfer_asset_from_contract(e1, offer.buyer, listing.asset)
        e3 == [e2 EXCEPT !.offers = Put(e2.offers, offer_id,
                                        [offer EXCEPT !.status = "Accepted"])]
    IN  refund_other_offers(e3, offer.listing_id, offer_id)

\* A variant that does not look at the listing's status.
accept_offer_any_listing(seller, offer_id) ==
    /\ Has(offers, offer_id)
    /\ offers[offer_id].status = "Open"
    /\ offers[offer_id].expiration_time # NoExpiration => ~(now > offers[offer_id].expiration_time)
    /\ Has(listings, offers[offer_id].listing_id)
    /\ listings[offers[offer_id].listing_id].seller = seller
    /\ config.set
    /\ LET offer == offers[offer_id]
           listing == listings[offer.listing_id]
           e4 == accept_offer_calls(seller, offer_id)
       IN  /\ e4.ok
           /\ balance' = e4.bal
           /\ owner' = e4.owner
           /\ offers' = e4.offers
           /\ listings' = Put(listings, offer.listing_id, [listing EXCEPT !.status = "Sold"])
           /\ active_listings' = remove_from_active_listings(active_listings, offer.listing_id)
           /\ price_history' = [price_history EXCEPT ![listing.asset] =
                                    record_price_history(@, offer.price)]
    /\ UNCHANGED <<config, listing_count, offer_count, counter_offers, counter_offer_count,
                   offers_by_listing, counter_offers_by_offer, now, probe, events, rewards, registry, reputation_state,
                   listings_by_seller, listings_by_asset>>

accept_offer(seller, offer_id) ==
    /\ Has(offers, offer_id)
    /\ offers[offer_id].status = "Open"
    /\ offers[offer_id].expiration_time # NoExpiration => ~(now > offers[offer_id].expiration_time)
    /\ Has(listings, offers[offer_id].listing_id)
    /\ listings[offers[offer_id].listing_id].seller = seller
    /\ listings[offers[offer_id].listing_id].status = "Active"
    /\ config.set
    /\ LET offer == offers[offer_id]
           listing == listings[offer.listing_id]
           e4 == accept_offer_calls(seller, offer_id)
       IN  /\ e4.ok
           /\ balance' = e4.bal
           /\ owner' = e4.owner
           /\ offers' = e4.offers
           /\ listings' = Put(listings, offer.listing_id, [listing EXCEPT !.status = "Sold"])
           /\ active_listings' = remove_from_active_listings(active_listings, offer.listing_id)
           /\ price_history' = [price_history EXCEPT ![listing.asset] =
                                    record_price_history(@, offer.price)]
    /\ UNCHANGED <<config, listing_count, offer_count, counter_offers, counter_offer_count,
                   offers_by_listing, counter_offers_by_offer, now, probe, events, rewards, registry, reputation_state, listings_by_seller, listings_by_asset>>

\* A variant that lets anyone reject an offer.
reject_offer_any_caller(seller, offer_id) ==
    /\ Has(offers, offer_id)
    /\ offers[offer_id].status = "Open"
    /\ Has(listings, offers[offer_id].listing_id)
    /\ LET offer == offers[offer_id]
           e == TokenTransfer(Env0, Contract, offer.buyer, offer.price)
       IN  /\ e.ok
           /\ balance' = e.bal
           /\ offers' = Put(offers, offer_id, [offer EXCEPT !.status = "Rejected"])
    /\ UNCHANGED <<config, listings, listing_count, offer_count, counter_offers,
                   counter_offer_count, offers_by_listing, counter_offers_by_offer,
                   active_listings, price_history, owner, now, probe, events, rewards, registry, reputation_state,
                   listings_by_seller, listings_by_asset>>

reject_offer(seller, offer_id) ==
    /\ Has(offers, offer_id)
    /\ offers[offer_id].status = "Open"
    /\ Has(listings, offers[offer_id].listing_id)
    /\ listings[offers[offer_id].listing_id].seller = seller
    /\ LET offer == offers[offer_id]
           e == TokenTransfer(Env0, Contract, offer.buyer, offer.price)
       IN  /\ e.ok
           /\ balance' = e.bal
           /\ offers' = Put(offers, offer_id, [offer EXCEPT !.status = "Rejected"])
    /\ UNCHANGED <<config, listings, listing_count, offer_count, counter_offers,
                   counter_offer_count, offers_by_listing, counter_offers_by_offer,
                   active_listings, price_history, owner, now, probe, events, rewards, registry, reputation_state, listings_by_seller, listings_by_asset>>

create_counter_offer(seller, offer_id, price, expiration_time) ==
    /\ Has(offers, offer_id)
    /\ offers[offer_id].status = "Open"
    /\ Has(listings, offers[offer_id].listing_id)
    /\ listings[offers[offer_id].listing_id].seller = seller
    /\ price > 0
    /\ expiration_time # NoExpiration => expiration_time > now
    /\ LET counter_offer_id == counter_offer_count + 1
           counter_offer == [counter_offer_id |-> counter_offer_id, offer_id |-> offer_id,
                             seller |-> seller, price |-> price,
                             expiration_time |-> expiration_time]
       IN  /\ counter_offer_count' = counter_offer_id
           /\ counter_offers' = Put(counter_offers, counter_offer_id, counter_offer)
           /\ counter_offers_by_offer' = [counter_offers_by_offer EXCEPT ![offer_id] =
                                              Append(@, counter_offer_id)]
           /\ offers' = Put(offers, offer_id, [offers[offer_id] EXCEPT !.status = "Countered"])
    /\ UNCHANGED <<config, listings, listing_count, offer_count, offers_by_listing,
                   active_listings, price_history, balance, owner, now, probe, events, rewards, registry, reputation_state, listings_by_seller, listings_by_asset>>

accept_counter_offer(buyer, counter_offer_id) ==
    /\ Has(counter_offers, counter_offer_id)
    /\ Has(offers, counter_offers[counter_offer_id].offer_id)
    /\ offers[counter_offers[counter_offer_id].offer_id].buyer = buyer
    /\ counter_offers[counter_offer_id].expiration_time # NoExpiration
          => ~(now > counter_offers[counter_offer_id].expiration_time)
    /\ Has(listings, offers[counter_offers[counter_offer_id].offer_id].listing_id)
    /\ config.set
    /\ LET counter_offer == counter_offers[counter_offer_id]
           offer == offers[counter_offer.offer_id]
           listing == listings[offer.listing_id]
           e1 == TokenTransfer(Env0, Contract, buyer, offer.price)
           price_difference == counter_offer.price - offer.price
           e2 == IF price_difference > 0
                 THEN TokenTransfer(e1, buyer, Contract, price_difference)
                 ELSE e1
           payouts == calculate_payouts(counter_offer.price, config.fee_bps, listing.royalty_bps)
           e3 == Distribute(e2, counter_offer.seller, listing, payouts)
           e4 == transfer_asset_from_contract(e3, buyer, listing.asset)
           e5 == [e4 EXCEPT !.offers = Put(e4.offers, counter_offer.offer_id,
                                           [offer EXCEPT !.status = "Accepted"])]
           e6 == refund_other_offers(e5, offer.listing_id, counter_offer.offer_id)
       IN  /\ e6.ok
           /\ balance' = e6.bal
           /\ owner' = e6.owner
           /\ offers' = e6.offers
           /\ listings' = Put(listings, offer.listing_id, [listing EXCEPT !.status = "Sold"])
           /\ active_listings' = remove_from_active_listings(active_listings, offer.listing_id)
           /\ price_history' = [price_history EXCEPT ![listing.asset] =
                                    record_price_history(@, counter_offer.price)]
    /\ UNCHANGED <<config, listing_count, offer_count, counter_offers, counter_offer_count,
                   offers_by_listing, counter_offers_by_offer, now, probe, events, rewards, registry, reputation_state, listings_by_seller, listings_by_asset>>

cancel_listing(seller, listing_id) ==
    /\ Has(listings, listing_id)
    /\ listings[listing_id].seller = seller
    /\ listings[listing_id].status = "Active"
    /\ LET listing == listings[listing_id]
           e1 == transfer_asset_from_contract(Env0, seller, listing.asset)
           e2 == refund_all_offers(e1, listing_id)
       IN  /\ e2.ok
           /\ balance' = e2.bal
           /\ owner' = e2.owner
           /\ offers' = e2.offers
           /\ listings' = Put(listings, listing_id, [listing EXCEPT !.status = "Cancelled"])
           /\ active_listings' = remove_from_active_listings(active_listings, listing_id)
    /\ UNCHANGED <<config, listing_count, offer_count, counter_offers, counter_offer_count,
                   offers_by_listing, counter_offers_by_offer, price_history, now, probe, events, rewards, registry, reputation_state, listings_by_seller, listings_by_asset>>

\* A variant that closes the listing along with the offer.
cancel_offer_closes_listing(buyer, offer_id) ==
    /\ Has(offers, offer_id)
    /\ offers[offer_id].buyer = buyer
    /\ offers[offer_id].status = "Open"
    /\ Has(listings, offers[offer_id].listing_id)
    /\ LET offer == offers[offer_id]
           e == TokenTransfer(Env0, Contract, buyer, offer.price)
       IN  /\ e.ok
           /\ balance' = e.bal
           /\ offers' = Put(offers, offer_id, [offer EXCEPT !.status = "Cancelled"])
           /\ listings' = Put(listings, offer.listing_id,
                              [listings[offer.listing_id] EXCEPT !.status = "Cancelled"])
    /\ UNCHANGED <<config, listing_count, offer_count, counter_offers,
                   counter_offer_count, offers_by_listing, counter_offers_by_offer,
                   active_listings, price_history, owner, now, probe, events, rewards, registry, reputation_state,
                   listings_by_seller, listings_by_asset>>

\* A variant that marks the offer Cancelled and keeps its funds in escrow.
cancel_offer_keeps_escrow(buyer, offer_id) ==
    /\ Has(offers, offer_id)
    /\ offers[offer_id].buyer = buyer
    /\ offers[offer_id].status = "Open"
    /\ Has(listings, offers[offer_id].listing_id)
    /\ offers' = Put(offers, offer_id, [offers[offer_id] EXCEPT !.status = "Cancelled"])
    /\ UNCHANGED <<config, listings, listing_count, offer_count, counter_offers,
                   counter_offer_count, offers_by_listing, counter_offers_by_offer,
                   active_listings, price_history, balance, owner, now, probe, events, rewards, registry, reputation_state,
                   listings_by_seller, listings_by_asset>>

cancel_offer(buyer, offer_id) ==
    /\ Has(offers, offer_id)
    /\ offers[offer_id].buyer = buyer
    /\ offers[offer_id].status = "Open"
    /\ Has(listings, offers[offer_id].listing_id)
    /\ LET offer == offers[offer_id]
           e == TokenTransfer(Env0, Contract, buyer, offer.price)
       IN  /\ e.ok
           /\ balance' = e.bal
           /\ offers' = Put(offers, offer_id, [offer EXCEPT !.status = "Cancelled"])
    /\ UNCHANGED <<config, listings, listing_count, offer_count, counter_offers,
                   counter_offer_count, offers_by_listing, counter_offers_by_offer,
                   active_listings, price_history, owner, now, probe, events, rewards, registry, reputation_state, listings_by_seller, listings_by_asset>>

\* The ledger's clock advances between calls.
Tick ==
    /\ now < MaxTime
    /\ now' = now + 1
    /\ UNCHANGED <<storage, balance, owner, probe, events, rewards, registry, reputation_state>>

\* ------------------------------------------------------------------
\* The marketplace: any caller, any entry point, any argument. The number of
\* listings, offers and counter-offers ever created is bounded here.
\* ------------------------------------------------------------------
Initialize == \E fee_bps \in FeeBpsInputs : initialize(Admin, FeeRecipient, fee_bps, 0, 0)

UpdateConfig ==
    \E caller \in Users \cup {Admin}, fee_bps \in FeeBpsInputs \cup {NoValue} :
        update_config(caller, NoAddress, fee_bps, NoValue, NoValue)

CreateListing ==
    /\ Created(listings_by_asset) < MaxListings
    /\ \E seller \in Users, token_id \in TokenIds, price \in ListingPriceInputs,
          terms \in ListingTermsInputs :
           create_listing(seller, token_id, price, terms[1], terms[2])

Buy == \E buyer \in Users, listing_id \in ListingIds : buy(buyer, listing_id)

CreateOffer ==
    /\ Created(offers_by_listing) < MaxOffers
    /\ \E buyer \in Users, listing_id \in ListingIds, price \in PriceInputs,
          expiration_time \in ExpirationInputs :
           create_offer(buyer, listing_id, price, expiration_time)

AcceptOffer == \E seller \in Users, offer_id \in OfferIds : accept_offer(seller, offer_id)

RejectOffer == \E seller \in Users, offer_id \in OfferIds : reject_offer(seller, offer_id)

CreateCounterOffer ==
    /\ Created(counter_offers_by_offer) < MaxCounters
    /\ \E seller \in Users, offer_id \in OfferIds, price \in PriceInputs,
          expiration_time \in ExpirationInputs :
           create_counter_offer(seller, offer_id, price, expiration_time)

AcceptCounterOffer ==
    \E buyer \in Users, counter_offer_id \in CounterIds :
        accept_counter_offer(buyer, counter_offer_id)

CancelListing ==
    \E seller \in Users, listing_id \in ListingIds : cancel_listing(seller, listing_id)

CancelOffer == \E buyer \in Users, offer_id \in OfferIds : cancel_offer(buyer, offer_id)

Next ==
    \/ Initialize
    \/ UpdateConfig
    \/ CreateListing
    \/ Buy
    \/ CreateOffer
    \/ AcceptOffer
    \/ RejectOffer
    \/ CreateCounterOffer
    \/ AcceptCounterOffer
    \/ CancelListing
    \/ CancelOffer

Spec == Init /\ [][Next]_vars

\* ------------------------------------------------------------------
\* The marketplace over a longer life of one asset: two traders, one price,
\* no fee and no royalty, and more listings than Spec allows.
\* ------------------------------------------------------------------
InitRelist ==
    /\ InitStorageFor(1..MaxRelistings, 1..MaxRelistOffers)
    /\ NoRewards
    /\ NoRegistry
    /\ NoReputation
    /\ probe = NoProbe

RelistInitialize == initialize(Admin, FeeRecipient, 0, 0, 0)

RelistCreateListing ==
    /\ Created(listings_by_asset) < MaxRelistings
    /\ \E seller \in Traders, token_id \in TokenIds :
           create_listing(seller, token_id, RelistPrice, NoAddress, 0)

RelistBuy == \E buyer \in Traders, listing_id \in 1..MaxRelistings : buy(buyer, listing_id)

RelistCreateOffer ==
    /\ Created(offers_by_listing) < MaxRelistOffers
    /\ \E buyer \in Traders, listing_id \in 1..MaxRelistings :
           create_offer(buyer, listing_id, RelistPrice, NoExpiration)

RelistCreateCounterOffer ==
    /\ Created(counter_offers_by_offer) < MaxRelistCounters
    /\ \E seller \in Traders, offer_id \in 1..MaxRelistOffers :
           create_counter_offer(seller, offer_id, RelistPrice, NoExpiration)

RelistAcceptCounterOffer ==
    \E buyer \in Traders, counter_offer_id \in 1..MaxRelistCounters :
        accept_counter_offer(buyer, counter_offer_id)

RelistCancelListing ==
    \E seller \in Traders, listing_id \in 1..MaxRelistings : cancel_listing(seller, listing_id)

NextRelist ==
    \/ RelistInitialize
    \/ RelistCreateListing
    \/ RelistBuy
    \/ RelistCreateOffer
    \/ RelistCreateCounterOffer
    \/ RelistAcceptCounterOffer
    \/ RelistCancelListing

SpecRelist == InitRelist /\ [][NextRelist]_vars

\* ------------------------------------------------------------------
\* The settlement calculator on its own: the inputs are drawn in the
\* initial state and one step applies calculate_payouts to them.
\* ------------------------------------------------------------------
InitPayouts ==
    /\ InitStorage
    /\ NoRewards
    /\ NoRegistry
    /\ NoReputation
    /\ \E price \in ProbePrices, fee_bps \in ProbeBps, royalty_bps \in ProbeBps :
          probe = [fn |-> "calculate_payouts", price |-> price, fee_bps |-> fee_bps,
                   royalty_bps |-> royalty_bps, done |-> FALSE, result |-> <<0, 0, 0>>]

CalculatePayouts ==
    /\ probe.fn = "calculate_payouts"
    /\ ~probe.done
    /\ probe' = [probe EXCEPT !.done = TRUE,
                              !.result = calculate_payouts(probe.price, probe.fee_bps,
                                                           probe.royalty_bps)]
    /\ UNCHANGED <<storage, balance, owner, now, events, rewards, registry, reputation_state>>

NextPayouts == CalculatePayouts

SpecPayouts == InitPayouts /\ [][NextPayouts]_vars

\* ------------------------------------------------------------------
\* The marketplace with a running clock: offers with and without an
\* expiration on one seller's listings, accepted while the time passes.
\* ------------------------------------------------------------------
TimedInitialize == initialize(Admin, FeeRecipient, 0, 0, 0)

TimedCreateListing ==
    /\ Created(listings_by_asset) < MaxListings
    /\ \E seller \in Users : create_listing(seller, 1, MaxPrice, NoAddress, 0)

TimedCreateOffer ==
    /\ Created(offers_by_listing) < MaxOffers
    /\ \E buyer \in Users, listing_id \in ListingIds, price \in PriceInputs,
          expiration_time \in TimedExpirationInputs :
           create_offer(buyer, listing_id, price, expiration_time)

TimedAcceptOffer == \E seller \in Users, offer_id \in OfferIds : accept_offer(seller, offer_id)

TimedBuy == \E buyer \in Users, listing_id \in ListingIds : buy(buyer, listing_id)

TimedRejectOffer == \E seller \in Users, offer_id \in OfferIds : reject_offer(seller, offer_id)

TimedCancelOffer == \E buyer \in Users, offer_id \in OfferIds : cancel_offer(buyer, offer_id)

TimedCreateCounterOffer ==
    /\ Created(counter_offers_by_offer) < MaxCounters
    /\ \E seller \in Users, offer_id \in OfferIds, price \in ListingPriceInputs,
          expiration_time \in TimedExpirationInputs :
           create_counter_offer(seller, offer_id, price, expiration_time)

TimedAcceptCounterOffer ==
    \E buyer \in Users, counter_offer_id \in CounterIds :
        accept_counter_offer(buyer, counter_offer_id)

NextTimed ==
    \/ Tick
    \/ TimedInitialize
    \/ TimedCreateListing
    \/ TimedCreateOffer
    \/ TimedAcceptOffer
    \/ TimedBuy
    \/ TimedRejectOffer
    \/ TimedCancelOffer
    \/ TimedCreateCounterOffer
    \/ TimedAcceptCounterOffer

SpecTimed == Init /\ [][NextTimed]_vars

\* ------------------------------------------------------------------
\* The configuration: initialize and update_config with every combination of
\* arguments, called by the admin and by others, beside a small marketplace
\* whose listings, offers and counters they must leave alone.
\* ------------------------------------------------------------------
ConfigInitialize ==
    \E admin \in ConfigAdmins, fee_recipient \in ConfigRecipients, fee_bps \in ConfigFeeInputs :
        initialize(admin, fee_recipient, fee_bps, 0, 0)

ConfigUpdate ==
    \E caller \in ConfigCallers,
       fee_recipient \in ConfigRecipients \cup {NoAddress},
       fee_bps \in ConfigFeeInputs \cup {NoValue},
       min_listing_duration \in DurationInputs \cup {NoValue},
       max_listing_duration \in DurationInputs \cup {NoValue} :
        update_config(caller, fee_recipient, fee_bps, min_listing_duration,
                      max_listing_duration)

ConfigCreateListing ==
    /\ Created(listings_by_asset) < MaxConfigListings
    /\ create_listing(FirstOwner, 1, MaxPrice, NoAddress, 0)

ConfigCreateOffer ==
    /\ Created(offers_by_listing) < MaxConfigOffers
    /\ \E listing_id \in ListingIds : create_offer("u2", listing_id, 1, NoExpiration)

ConfigCancelListing ==
    \E listing_id \in ListingIds : cancel_listing(FirstOwner, listing_id)

NextConfig ==
    \/ ConfigInitialize
    \/ ConfigUpdate
    \/ ConfigCreateListing
    \/ ConfigCreateOffer
    \/ ConfigCancelListing

SpecConfig == Init /\ [][NextConfig]_vars

\* ------------------------------------------------------------------
\* The price history on its own: an asset's history starts empty or close to
\* the cap, and each step records one more settled price. `settled` is the
\* full chronological record of the prices, kept beside the stored history.
\* ------------------------------------------------------------------
InitHistory ==
    /\ InitStorage
    /\ NoRewards
    /\ NoRegistry
    /\ NoReputation
    /\ \E len \in HistoryLengths :
          probe = [fn |-> "record_price_history", history |-> [i \in 1..len |-> i],
                   settled |-> [i \in 1..len |-> i], pushes |-> 0]

RecordPriceHistory ==
    /\ probe.fn = "record_price_history"
    /\ probe.pushes < MaxPushes
    /\ \E price \in HistoryPriceInputs :
          probe' = [probe EXCEPT !.history = record_price_history(@, price),
                                 !.settled = Append(@, price),
                                 !.pushes = @ + 1]
    /\ UNCHANGED <<storage, balance, owner, now, events, rewards, registry, reputation_state>>

NextHistory == RecordPriceHistory

SpecHistory == InitHistory /\ [][NextHistory]_vars

\* ------------------------------------------------------------------
\* The marketplace with every combination of fee and royalty rates that
\* initialize, update_config and create_listing accept or refuse.
\* ------------------------------------------------------------------
FeeRoyaltyInputs == {0, 5000, MaxBps, MaxBps + 1}

FeesInitialize ==
    \E fee_bps \in FeeRoyaltyInputs : initialize(Admin, FeeRecipient, fee_bps, 0, 0)

FeesUpdateConfig ==
    \E fee_bps \in FeeRoyaltyInputs :
        update_config(Admin, NoAddress, fee_bps, NoValue, NoValue)

FeesCreateListing ==
    /\ Created(listings_by_asset) < MaxListings
    /\ \E seller \in Users, royalty_bps \in FeeRoyaltyInputs :
           create_listing(seller, 1, MaxPrice, Creator, royalty_bps)

FeesBuy == \E buyer \in Users, listing_id \in ListingIds : buy(buyer, listing_id)

FeesCreateOffer ==
    /\ Created(offers_by_listing) < MaxOffers
    /\ \E buyer \in Users, listing_id \in ListingIds, price \in 1..MaxPrice :
           create_offer(buyer, listing_id, price, NoExpiration)

FeesAcceptOffer == \E seller \in Users, offer_id \in OfferIds : accept_offer(seller, offer_id)

FeesCreateCounterOffer ==
    /\ Created(counter_offers_by_offer) < MaxCounters
    /\ \E seller \in Users, offer_id \in OfferIds, price \in 1..MaxPrice :
           create_counter_offer(seller, offer_id, price, NoExpiration)

FeesAcceptCounterOffer ==
    \E buyer \in Users, counter_offer_id \in CounterIds :
        accept_counter_offer(buyer, counter_offer_id)

NextFees ==
    \/ FeesInitialize
    \/ FeesUpdateConfig
    \/ FeesCreateListing
    \/ FeesBuy
    \/ FeesCreateOffer
    \/ FeesAcceptOffer
    \/ FeesCreateCounterOffer
    \/ FeesAcceptCounterOffer

SpecFees == Init /\ [][NextFees]_vars

\* ------------------------------------------------------------------
\* The daily rewards contract (src/contracts/daily_rewards/src/lib.rs).
\* The ledger sequence is an input of each call: `current_ledger` is the
\* ledger at which the call executes, never before the previous call's.
\* ------------------------------------------------------------------
saturating_sub(a, b) == IF a >= b THEN a - b ELSE 0

Min(a, b) == IF a <= b THEN a ELSE b

calculate_reward(streak) ==
    LET base_reward ==
            CASE streak \in 1..7 -> 50 + streak * 50
              [] streak \in 8..14 -> 400 + (streak - 7) * 50
              [] streak \in 15..21 -> 750 + (streak - 14) * 75
              [] streak \in 22..30 -> 1275 + (streak - 21) * 100
              [] OTHER -> 2175
        milestone_bonus ==
            CASE streak = 7 -> 500
              [] streak = 14 -> 1000
              [] streak = 21 -> 1500
              [] streak = 30 -> 3000
              [] OTHER -> 0
    IN  base_reward + milestone_bonus

get_user_streak(user) == user_streak[user]

\* ledger sequence times timestamp (wrapping at 2^64, beyond these ledgers)
get_ledger_hash(current_ledger) == current_ledger * now

can_claim(user, current_ledger) ==
    LET user_data == get_user_streak(user)
    IN  IF user_data.last_claim_ledger = 0 THEN TRUE
        ELSE saturating_sub(current_ledger, user_data.last_claim_ledger) >= DAY_IN_LEDGERS

is_in_grace_period(user, current_ledger) ==
    LET user_data == get_user_streak(user)
        ledgers_since_last == saturating_sub(current_ledger, user_data.last_claim_ledger)
    IN  IF user_data.last_claim_ledger = 0 THEN FALSE
        ELSE /\ ledgers_since_last > DAY_IN_LEDGERS
             /\ ledgers_since_last <= DAY_IN_LEDGERS + GRACE_PERIOD_LEDGERS

preview_next_reward(user, current_ledger) ==
    LET user_data == get_user_streak(user)
        ledgers_since_last == saturating_sub(current_ledger, user_data.last_claim_ledger)
        next_streak == IF ledgers_since_last <= DAY_IN_LEDGERS + GRACE_PERIOD_LEDGERS
                       THEN Min(user_data.current_streak + 1, MAX_STREAK_DAYS)
                       ELSE 1
    IN  calculate_reward(next_streak)

claim_daily(user, current_ledger) ==
    LET user_data == get_user_streak(user)
        current_hash == get_ledger_hash(current_ledger)
        ledgers_since_last == saturating_sub(current_ledger, user_data.last_claim_ledger)
        is_consecutive == ledgers_since_last <= DAY_IN_LEDGERS + GRACE_PERIOD_LEDGERS
        current_streak == IF is_consecutive
                          THEN Min(user_data.current_streak + 1, MAX_STREAK_DAYS)
                          ELSE 1
    IN  /\ current_ledger >= sequence
        /\ sequence' = current_ledger
        /\ IF user_data.last_claim_ledger = 0
           THEN /\ user_streak' = [user_streak EXCEPT ![user] =
                                      [current_streak |-> 1,
                                       last_claim_ledger |-> current_ledger,
                                       total_logins |-> 1,
                                       last_claim_hash |-> current_hash]]
                /\ reward' = calculate_reward(1)
           ELSE /\ ~(ledgers_since_last < DAY_IN_LEDGERS)
                /\ user_streak' = [user_streak EXCEPT ![user] =
                                      [current_streak |-> current_streak,
                                       last_claim_ledger |-> current_ledger,
                                       total_logins |-> user_data.total_logins + 1,
                                       last_claim_hash |-> current_hash]]
                /\ reward' = calculate_reward(current_streak)
        /\ UNCHANGED <<storage, balance, owner, now, probe, events, registry,
                       reputation_state>>

\* A life of the contract starts at ledger 0 or 1 with no records, or at a later
\* ledger where one user has just claimed for the 28th, 29th or 30th day running.
InitRewards ==
    /\ InitStorage
    /\ NoRegistry
    /\ NoReputation
    /\ probe = NoProbe
    /\ \E start \in StartSequences :
          /\ sequence = start
          /\ IF start = VeteranLedger
             THEN \E streak \in VeteranStreaks :
                     /\ user_streak = [u \in RewardUsers |->
                            IF u = "u1"
                            THEN [current_streak |-> streak, last_claim_ledger |-> start,
                                  total_logins |-> streak, last_claim_hash |-> 0]
                            ELSE NoStreak]
                     /\ reward = calculate_reward(streak)
             ELSE /\ user_streak = [u \in RewardUsers |-> NoStreak]
                  /\ reward = 0

\* The base ledger of the life the state belongs to
StartOf(ledger) == IF ledger >= VeteranLedger THEN VeteranLedger ELSE 0

ClaimDaily ==
    \E user \in RewardUsers, step \in LedgerSteps :
        /\ sequence + step <= StartOf(sequence)
                               + MaxRewardDays * (DAY_IN_LEDGERS + GRACE_PERIOD_LEDGERS + 1)
        /\ claim_daily(user, sequence + step)

NextRewards == ClaimDaily

SpecRewards == InitRewards /\ [][NextRewards]_vars

\* ------------------------------------------------------------------
\* The achievement NFT contract (src/contracts/achievement_nft/src/lib.rs).
\* `caller` is the address whose authorization the call carries.
\* ------------------------------------------------------------------
nft_initialize(admin) ==
    /\ nft_admin = NoAddress
    /\ nft_admin' = admin
    /\ next_token_id' = 1
    /\ supply_counter' = 0
    /\ UNCHANGED <<achievement, owner_collection>>
    /\ UNCHANGED <<storage, balance, owner, now, probe, events, rewards, reputation_state>>

get_collection(address) == owner_collection[address]

owner_of(token_id) == achievement[token_id].owner

total_supply == IF supply_counter = NoValue THEN 0 ELSE supply_counter

\* A variant that numbers a new token by the supply: the number of tokens that
\* exist plus one.
mint_numbered_by_supply(caller, to) ==
    LET token_id == total_supply + 1
    IN  /\ caller = to
        /\ next_token_id # NoValue
        /\ token_id \in AchievementIds
        /\ achievement' = [achievement EXCEPT ![token_id] = [owner |-> to]]
        /\ owner_collection' = [owner_collection EXCEPT
                                   ![to] = Append(get_collection(to), token_id)]
        /\ next_token_id' = token_id + 1
        /\ supply_counter' = total_supply + 1
        /\ UNCHANGED nft_admin
        /\ UNCHANGED <<storage, balance, owner, now, probe, events, rewards,
                       reputation_state>>

mint(caller, to) ==
    LET token_id == next_token_id
    IN  /\ caller = to
        /\ next_token_id # NoValue
        /\ token_id \in AchievementIds
        /\ achievement' = [achievement EXCEPT ![token_id] = [owner |-> to]]
        /\ owner_collection' = [owner_collection EXCEPT
                                   ![to] = Append(get_collection(to), token_id)]
        /\ next_token_id' = token_id + 1
        /\ supply_counter' = total_supply + 1
        /\ UNCHANGED nft_admin
        /\ UNCHANGED <<storage, balance, owner, now, probe, events, rewards,
                       reputation_state>>

\* Vec::first_index_of
Contains(seq, x) == \E i \in 1..Len(seq) : seq[i] = x

\* `to`'s collection is read after `from`'s has been stored.
transfer(caller, from, to, token_id) ==
    LET from_col == RemoveFirst(get_collection(from), token_id)
        stored == [owner_collection EXCEPT ![from] = from_col]
        to_col == Append(stored[to], token_id)
    IN  /\ caller = from
        /\ achievement[token_id] # NoAchievement
        /\ achievement[token_id].owner = from
        /\ Contains(get_collection(from), token_id)
        /\ owner_collection' = [stored EXCEPT ![to] = to_col]
        /\ achievement' = [achievement EXCEPT ![token_id].owner = to]
        /\ UNCHANGED <<nft_admin, next_token_id, supply_counter>>
        /\ UNCHANGED <<storage, balance, owner, now, probe, events, rewards,
                       reputation_state>>

burn(caller, token_id) ==
    LET holder == achievement[token_id].owner
        collection == get_collection(holder)
    IN  /\ achievement[token_id] # NoAchievement
        /\ caller = holder
        /\ owner_collection' = IF Contains(collection, token_id)
                               THEN [owner_collection EXCEPT
                                        ![holder] = RemoveFirst(collection, token_id)]
                               ELSE owner_collection
        /\ achievement' = [achievement EXCEPT ![token_id] = NoAchievement]
        /\ supply_counter # NoValue
        /\ supply_counter - 1 >= 0
        /\ supply_counter' = supply_counter - 1
        /\ UNCHANGED <<nft_admin, next_token_id>>
        /\ UNCHANGED <<storage, balance, owner, now, probe, events, rewards,
                       reputation_state>>

NftInitialize == nft_initialize(Admin)

Mint == \E caller \in Users, to \in Users : mint(caller, to)

Transfer ==
    \E caller \in Users, from \in Users, to \in Users, token_id \in AchievementIds :
        transfer(caller, from, to, token_id)

Burn == \E caller \in Users, token_id \in AchievementIds : burn(caller, token_id)

NextNft ==
    \/ NftInitialize
    \/ Mint
    \/ Transfer
    \/ Burn

SpecNft == Init /\ [][NextNft]_vars

\* ------------------------------------------------------------------
\* The reputation contract (src/contracts/reputation/src/lib.rs): initialize
\* and record_feedback. A call that returns an error leaves no trace, as a
\* panic does. `caller` is the address whose authorization the call carries.
\* ------------------------------------------------------------------
reputation_initialize(admin, min_feedback_gap) ==
    /\ ~reputation_config.set
    /\ reputation_config' = [set |-> TRUE, min_feedback_gap |-> min_feedback_gap]
    /\ UNCHANGED <<feedback, reputation>>
    /\ UNCHANGED <<storage, balance, owner, now, probe, events, rewards, registry>>

get_feedback_count(player) == Len(feedback[player])

\* Feedback(to, i) of the source is feedback[to][i + 1].
RECURSIVE RateLimitLoop(_, _, _, _)
RateLimitLoop(from, to, i, feedback_count) ==
    IF i >= feedback_count THEN "Ok"
    ELSE LET entry == feedback[to][i + 1]
             time_since_last == now - entry.timestamp
         IN  IF entry.from = from /\ time_since_last < reputation_config.min_feedback_gap
             THEN "RateLimitExceeded"
             ELSE RateLimitLoop(from, to, i + 1, feedback_count)

\* A variant that looks at the recipient's first feedback only.
check_feedback_rate_limit_first_only(from, to) ==
    IF ~reputation_config.set THEN "NotInitialized"
    ELSE IF get_feedback_count(to) = 0 THEN "Ok"
    ELSE RateLimitLoop(from, to, 0, 1)

check_feedback_rate_limit(from, to) ==
    IF ~reputation_config.set THEN "NotInitialized"
    ELSE RateLimitLoop(from, to, 0, get_feedback_count(to))

get_or_create_reputation(player) ==
    IF reputation[player].stored THEN reputation[player]
    ELSE [NoScore EXCEPT !.last_activity = now]

\* The u32 counters stay far below 2^32 with these weights.
update_reputation(player, is_positive, weight) ==
    LET score == get_or_create_reputation(player)
        updated ==
            IF is_positive
            THEN [score EXCEPT !.positive_feedback = @ + 1, !.total_score = @ + weight]
            ELSE [score EXCEPT !.negative_feedback = @ + 1,
                               !.total_score = saturating_sub(@, weight)]
    IN  [reputation EXCEPT
            ![player] = [updated EXCEPT !.stored = TRUE, !.last_activity = now]]

\* What record_feedback returns before it writes anything
record_feedback_check(from, to) ==
    IF from = to THEN "SelfFeedback" ELSE check_feedback_rate_limit(from, to)

record_feedback(caller, from, to, is_positive, weight) ==
    LET entry == [from |-> from, is_positive |-> is_positive, weight |-> weight,
                  timestamp |-> now]
    IN  /\ caller = from
        /\ record_feedback_check(from, to) = "Ok"
        /\ feedback' = [feedback EXCEPT ![to] = Append(@, entry)]
        /\ reputation' = update_reputation(to, is_positive, weight)
        /\ UNCHANGED reputation_config
        /\ UNCHANGED <<storage, balance, owner, now, probe, events, rewards, registry>>

ReputationInitialize ==
    \E min_feedback_gap \in FeedbackGapInputs : reputation_initialize(Admin, min_feedback_gap)

RecordFeedback ==
    \E caller \in Players, from \in Players, to \in Players, is_positive \in BOOLEAN,
       weight \in WeightInputs :
        /\ TotalLen(feedback, Players) < MaxFeedbacks
        /\ record_feedback(caller, from, to, is_positive, weight)

\* The ledger's clock advances between calls.
FeedbackTick ==
    /\ now < MaxFeedbackTime
    /\ now' = now + 1
    /\ UNCHANGED <<storage, balance, owner, probe, events, rewards, registry,
                   reputation_state>>

NextReputation ==
    \/ ReputationInitialize
    \/ RecordFeedback
    \/ FeedbackTick

SpecReputation == Init /\ [][NextReputation]_vars

\* ------------------------------------------------------------------
\* Properties
\* ------------------------------------------------------------------

\* q is a / b truncated toward zero, for a >= 0 and b > 0
IsTruncatedQuotient(q, a, b) == q >= 0 /\ q * b <= a /\ a < (q + 1) * b

\* C1: for every price > 0 and fee_bps, royalty_bps in 0..10000, calculate_payouts
\* returns fee_amount = price*fee_bps/10000 and royalty_amount =
\* price*royalty_bps/10000, both truncated toward zero, and seller_amount =
\* price - fee_amount - royalty_amount, so that the three amounts sum to price.
C1_PayoutsSplitPrice ==
    (probe.fn = "calculate_payouts" /\ probe.done) =>
        LET seller_amount == probe.result[1]
            fee_amount == probe.result[2]
            royalty_amount == probe.result[3]
        IN  /\ IsTruncatedQuotient(fee_amount, probe.price * probe.fee_bps, 10000)
            /\ IsTruncatedQuotient(royalty_amount, probe.price * probe.royalty_bps, 10000)
            /\ seller_amount = probe.price - fee_amount - royalty_amount
            /\ seller_amount + fee_amount + royalty_amount = probe.price

\* The spec's example (price 1000, fee 250 bps, royalty 500 bps: 925 / 25 / 50)
\* has been computed, and so has a split that truncates.
C1_Witness ==
    /\ probe.fn = "calculate_payouts"
    /\ probe.done
    /\ probe.price = 1000 /\ probe.fee_bps = 250 /\ probe.royalty_bps = 500
    /\ probe.result = <<925, 25, 50>>

\* ------------------------------------------------------------------
\* Vocabulary of the marketplace properties
\* ------------------------------------------------------------------
OffersOn(listing_id) == {o \in DOMAIN offers : offers[o].listing_id = listing_id}

EscrowedOffers == {o \in DOMAIN offers : offers[o].status \in {"Open", "Countered"}}

\* C3: every Active listing has its asset in the marketplace's escrow.
C3_ActiveListingInEscrow ==
    \A l \in DOMAIN listings :
        listings[l].status = "Active" => owner[listings[l].asset] = Contract

\* C4: no Open offer survives a Sold listing.
C4_NoOpenOfferOnSoldListing ==
    \A o \in DOMAIN offers :
        offers[o].status = "Open" => listings[offers[o].listing_id].status # "Sold"

\* C8: each listing has at most one Accepted offer.
C8_AtMostOneAccepted ==
    \A l \in DOMAIN listings :
        Cardinality({o \in OffersOn(l) : offers[o].status = "Accepted"}) <= 1

\* C10: funds in equal funds out for every settled offer and every direct buy,
\* so when no offer is Open or Countered the marketplace holds no payment token.
C10_NoPendingOfferNoEscrow ==
    EscrowedOffers = {} => balance[Contract] = 0

\* No id has been handed out twice: initialize has not reset a counter that
\* had already been used.
NoIdReuse ==
    /\ listing_count = Created(listings_by_asset)
    /\ offer_count = Created(offers_by_listing)
    /\ counter_offer_count = Created(counter_offers_by_offer)

\* C6: a listing that is Sold or Cancelled keeps its status for ever.
C6_ListingStatusFinal ==
    [][\A l \in DOMAIN listings :
          listings[l].status # "Active" =>
              (l \in DOMAIN listings' /\ listings'[l].status = listings[l].status)]_vars

\* C7: an offer that is Accepted, Rejected or Cancelled never changes again
\* (status, price, buyer, listing), and a Countered offer only ever becomes Accepted.
C7_OfferStatusFinal ==
    [][\A o \in DOMAIN offers :
          /\ o \in DOMAIN offers'
          /\ offers[o].status \in {"Accepted", "Rejected", "Cancelled"} =>
                offers'[o] = offers[o]
          /\ offers[o].status = "Countered" =>
                /\ offers'[o].status \in {"Countered", "Accepted"}
                /\ [offers'[o] EXCEPT !.status = "Countered"] = offers[o]]_vars

\* C7 restricted to the runs in which no id has been handed out twice: there it
\* holds, so C7 fails only through the reuse of ids after initialize (C14).
C7_OfferStatusFinalWithoutIdReuse ==
    [][NoIdReuse' => (\A o \in DOMAIN offers :
          /\ o \in DOMAIN offers'
          /\ offers[o].status \in {"Accepted", "Rejected", "Cancelled"} =>
                offers'[o] = offers[o]
          /\ offers[o].status = "Countered" =>
                /\ offers'[o].status \in {"Countered", "Accepted"}
                /\ [offers'[o] EXCEPT !.status = "Countered"] = offers[o])]_vars

RECURSIVE SumPrices(_)
SumPrices(ids) ==
    IF ids = {} THEN 0
    ELSE LET o == CHOOSE x \in ids : TRUE
         IN  offers[o].price + SumPrices(ids \ {o})

\* The Open offers on a listing other than the accepted one, and what they owe
\* to an account.
OtherOpenOffers(listing_id, accepted) ==
    {o \in OffersOn(listing_id) \ {accepted} : offers[o].status = "Open"}

RefundOwed(account, listing_id, accepted) ==
    SumPrices({o \in OtherOpenOffers(listing_id, accepted) : offers[o].buyer = account})

\* What an acceptance of offer `accepted` must have done to the listing and its offers.
AcceptanceSettled(accepted) ==
    LET l == offers[accepted].listing_id
    IN  /\ offers'[accepted] = [offers[accepted] EXCEPT !.status = "Accepted"]
        /\ listings'[l].status = "Sold"
        /\ \A o \in OffersOn(l) \ {accepted} :
              offers'[o] = IF offers[o].status = "Open"
                           THEN [offers[o] EXCEPT !.status = "Cancelled"]
                           ELSE offers[o]

\* C5: a successful accept_offer or accept_counter_offer refunds the full price
\* of every other Open offer on the listing to its buyer and cancels it, marks
\* the accepted offer Accepted and the listing Sold, and leaves the other
\* non-Open offers untouched.
C5_AcceptRefundsOtherOpenOffers ==
    [][/\ \A seller \in Users, o \in OfferIds :
             accept_offer(seller, o) =>
                 /\ AcceptanceSettled(o)
                 /\ \A a \in Users \ {seller} :
                       balance'[a] = balance[a] + RefundOwed(a, offers[o].listing_id, o)
       /\ \A buyer \in Users, c \in CounterIds :
             accept_counter_offer(buyer, c) =>
                 LET o == counter_offers[c].offer_id
                 IN  /\ AcceptanceSettled(o)
                     /\ \A a \in Users \ {buyer, counter_offers[c].seller} :
                           balance'[a] = balance[a] + RefundOwed(a, offers[o].listing_id, o)
      ]_vars

\* The spec's example has happened: a listing is Sold, one of its offers is
\* Accepted, another one by a different buyer is Cancelled, and that buyer
\* holds the starting balance again.
C5_Witness ==
    \E l \in DOMAIN listings, a \in DOMAIN offers, b \in DOMAIN offers :
        /\ listings[l].status = "Sold"
        /\ offers[a].listing_id = l /\ offers[a].status = "Accepted"
        /\ offers[b].listing_id = l /\ offers[b].status = "Cancelled"
        /\ offers[b].buyer # offers[a].buyer
        /\ offers[b].price > 0
        /\ balance[offers[b].buyer] = InitBalance

\* C2: the buyer who accepts a counter-offer has paid counter.price in total
\* (offer.price at create_offer, the rest at accept_counter_offer), and the
\* amount paid out to seller, fee recipient and creator is what the buyer paid.
\* Stated for acceptances in which buyer and seller take part in no other
\* transfer of the call.
C2_CounterAcceptNetPayment ==
    [][\A buyer \in Users, c \in CounterIds :
          LET counter_offer == counter_offers[c]
              offer == offers[counter_offer.offer_id]
              paid_at_create == offer.price
              paid_at_accept == balance[buyer] - balance'[buyer]
              distributed == (balance'[counter_offer.seller] - balance[counter_offer.seller])
                             + (balance'[FeeRecipient] - balance[FeeRecipient])
                             + (balance'[Creator] - balance[Creator])
          IN  (/\ accept_counter_offer(buyer, c)
               /\ counter_offer.seller # buyer
               /\ RefundOwed(buyer, offer.listing_id, counter_offer.offer_id) = 0
               /\ RefundOwed(counter_offer.seller, offer.listing_id, counter_offer.offer_id) = 0)
              => /\ paid_at_create + paid_at_accept = counter_offer.price
                 /\ distributed = paid_at_create + paid_at_accept
      ]_vars

InIndex(index, id) == \E i \in 1..Len(index) : index[i] = id

\* The latest (at most PriceHistoryCap) entries of a chronological record
Latest(settled) ==
    IF Len(settled) > PriceHistoryCap
    THEN SubSeq(settled, Len(settled) - PriceHistoryCap + 1, Len(settled))
    ELSE settled

\* C11: a successful buy is of an existing Active listing by someone other than
\* its seller; it takes exactly listing.price from the buyer, pays seller_amount
\* to the seller, fee_amount to the fee recipient and royalty_amount to the
\* creator, hands the asset to the buyer, sets the listing Sold, removes it from
\* the active index and appends listing.price to the asset's price history
\* (price 1000, fee 250 bps, royalty 500 bps: 925 / 25 / 50).
C11_BuySettlesListing ==
    [][\A buyer \in Users, l \in DOMAIN listings :
          buy(buyer, l) =>
              LET listing == listings[l]
                  payouts == calculate_payouts(listing.price, config.fee_bps, listing.royalty_bps)
              IN  /\ listing.status = "Active"
                  /\ listing.seller # buyer
                  /\ calculate_payouts(1000, 250, 500) = <<925, 25, 50>>
                  /\ balance'[buyer] = balance[buyer] - listing.price
                  /\ balance'[listing.seller] = balance[listing.seller] + payouts[1]
                  /\ balance'[config.fee_recipient] = balance[config.fee_recipient] + payouts[2]
                  /\ listing.creator # NoAddress =>
                        balance'[listing.creator] = balance[listing.creator] + payouts[3]
                  /\ owner'[listing.asset] = buyer
                  /\ listings'[l] = [listing EXCEPT !.status = "Sold"]
                  /\ ~InIndex(active_listings', l)
                  /\ price_history'[listing.asset] =
                        Latest(Append(price_history[listing.asset], listing.price))
      ]_vars

\* C12: after a successful accept_counter_offer the listing's asset is owned by
\* the original offer's buyer, the listing is Sold and no longer in the active
\* index, the original offer is Accepted, seller, fee recipient and creator have
\* received the split of counter.price, and counter.price has been appended to
\* the asset's price history.
C12_CounterAcceptSettlesListing ==
    [][\A buyer \in Users, c \in DOMAIN counter_offers :
          accept_counter_offer(buyer, c) =>
              LET counter_offer == counter_offers[c]
                  offer == offers[counter_offer.offer_id]
                  listing == listings[offer.listing_id]
                  payouts == calculate_payouts(counter_offer.price, config.fee_bps,
                                               listing.royalty_bps)
              IN  /\ owner'[listing.asset] = offer.buyer
                  /\ listings'[offer.listing_id] = [listing EXCEPT !.status = "Sold"]
                  /\ ~InIndex(active_listings', offer.listing_id)
                  /\ offers'[counter_offer.offer_id] = [offer EXCEPT !.status = "Accepted"]
                  /\ (/\ counter_offer.seller # offer.buyer
                      /\ \A o \in DOMAIN offers :
                            offers[o].status = "Open" => offers[o].buyer # counter_offer.seller)
                        => balance'[counter_offer.seller] =
                              balance[counter_offer.seller] + payouts[1]
                  /\ balance'[config.fee_recipient] = balance[config.fee_recipient] + payouts[2]
                  /\ listing.creator # NoAddress =>
                        balance'[listing.creator] = balance[listing.creator] + payouts[3]
                  /\ price_history'[listing.asset] =
                        Latest(Append(price_history[listing.asset], counter_offer.price))
      ]_vars

\* C13: cancel_listing succeeds only for the listing's recorded seller on an
\* Active listing; afterwards the asset is owned by that seller again, the
\* listing is Cancelled and no longer in the active index, and every offer on
\* the listing that was Open has been refunded its full price and is Cancelled.
C13_CancelListingReturnsAll ==
    [][\A seller \in Users, l \in DOMAIN listings :
          cancel_listing(seller, l) =>
              LET listing == listings[l]
              IN  /\ listing.seller = seller
                  /\ listing.status = "Active"
                  /\ owner'[listing.asset] = listing.seller
                  /\ listings'[l] = [listing EXCEPT !.status = "Cancelled"]
                  /\ ~InIndex(active_listings', l)
                  /\ \A o \in OffersOn(l) :
                        offers[o].status = "Open" =>
                            offers'[o] = [offers[o] EXCEPT !.status = "Cancelled"]
                  /\ \A a \in Users : balance'[a] >= balance[a] + RefundOwed(a, l, 0)
                  /\ balance'[Contract] <= balance[Contract]
                                              - SumPrices(OtherOpenOffers(l, 0))
      ]_vars

\* C14: listing, offer and counter-offer ids come from strictly increasing
\* counters: no counter ever goes back, no id is assigned twice, and a newly
\* created record never overwrites a stored one.
C14_IdsNeverReused ==
    [][/\ listing_count' >= listing_count
       /\ offer_count' >= offer_count
       /\ counter_offer_count' >= counter_offer_count
       /\ \A seller \in Users, token_id \in TokenIds, price \in ListingPriceInputs,
             terms \in ListingTermsInputs :
             create_listing(seller, token_id, price, terms[1], terms[2]) =>
                 /\ ~Has(listings, listing_count')
                 /\ ~InIndex(listings_by_asset[token_id], listing_count')
       /\ \A buyer \in Users, l \in ListingIds, price \in PriceInputs,
             expiration_time \in ExpirationInputs :
             create_offer(buyer, l, price, expiration_time) =>
                 /\ ~Has(offers, offer_count')
                 /\ \A k \in DOMAIN offers_by_listing :
                       ~InIndex(offers_by_listing[k], offer_count')
       /\ \A seller \in Users, o \in OfferIds, price \in PriceInputs,
             expiration_time \in ExpirationInputs :
             create_counter_offer(seller, o, price, expiration_time) =>
                 /\ ~Has(counter_offers, counter_offer_count')
                 /\ \A k \in DOMAIN counter_offers_by_offer :
                       ~InIndex(counter_offers_by_offer[k], counter_offer_count')
      ]_vars

\* C15: the stored price history of an asset never holds more than 100 entries,
\* and it is always the latest (at most 100) settled prices in chronological
\* order: when a settlement exceeds the cap the oldest entries are dropped.
C15_PriceHistoryLatestHundred ==
    probe.fn = "record_price_history" =>
        /\ Len(probe.history) <= 100
        /\ probe.history = Latest(probe.settled)

\* More than 100 prices have been settled and the history has been truncated
\* from the front: it holds 100 entries and its newest is the last price settled.
C15_Witness ==
    /\ probe.fn = "record_price_history"
    /\ Len(probe.settled) > 100
    /\ Len(probe.history) = 100
    /\ probe.history[1] = probe.settled[Len(probe.settled) - 99]
    /\ probe.history[100] = probe.settled[Len(probe.settled)]

\* ------------------------------------------------------------------
\* Configuration
\* ------------------------------------------------------------------

\* C16: initialize succeeds at most once: it succeeds only while no config is
\* stored, and once one is stored no step is an initialize, the config stays
\* stored with the same admin and no id counter is set back.
C16_InitializeOnce ==
    [][/\ \A admin \in ConfigAdmins, fee_recipient \in ConfigRecipients,
             fee_bps \in ConfigFeeInputs :
             initialize(admin, fee_recipient, fee_bps, 0, 0) => ~config.set
       /\ config.set =>
             /\ config'.set
             /\ config'.admin = config.admin
             /\ listing_count' >= listing_count
             /\ offer_count' >= offer_count
             /\ counter_offer_count' >= counter_offer_count
      ]_vars

\* A config is stored and ids have been handed out since: a second initialize
\* would reset them.
C16_Witness ==
    /\ config.set
    /\ listing_count > 0
    /\ offer_count > 0

\* C17: a stored config has fee_bps <= 10000: initialize and update_config
\* refuse a larger fee.
C17_FeeWithinBounds ==
    config.set => config.fee_bps <= 10000

\* update_config has stored the largest fee allowed.
C17_Witness ==
    /\ config.set
    /\ config.fee_bps = 10000
    /\ config.min_listing_duration > 0

\* C18: update_config takes effect only when called by the stored admin; it
\* overwrites exactly the fields given (Some), keeps the others and the admin,
\* and changes no listing, offer, counter-offer, index or counter.
C18_UpdateConfigFrame ==
    [][\A caller \in ConfigCallers,
          fee_recipient \in ConfigRecipients \cup {NoAddress},
          fee_bps \in ConfigFeeInputs \cup {NoValue},
          min_listing_duration \in DurationInputs \cup {NoValue},
          max_listing_duration \in DurationInputs \cup {NoValue} :
          update_config(caller, fee_recipient, fee_bps, min_listing_duration,
                        max_listing_duration) =>
              /\ config.set /\ config'.set
              /\ caller = config.admin
              /\ config'.admin = config.admin
              /\ config'.fee_recipient =
                    IF fee_recipient = NoAddress THEN config.fee_recipient ELSE fee_recipient
              /\ config'.fee_bps = IF fee_bps = NoValue THEN config.fee_bps ELSE fee_bps
              /\ config'.min_listing_duration =
                    IF min_listing_duration = NoValue THEN config.min_listing_duration
                    ELSE min_listing_duration
              /\ config'.max_listing_duration =
                    IF max_listing_duration = NoValue THEN config.max_listing_duration
                    ELSE max_listing_duration
              /\ UNCHANGED <<listings, listing_count, offers, offer_count, counter_offers,
                             counter_offer_count, offers_by_listing, counter_offers_by_offer,
                             listings_by_seller, listings_by_asset, active_listings,
                             price_history>>
      ]_vars

\* update_config has changed some fields and kept others while listings and
\* offers were stored.
C18_Witness ==
    /\ config.set
    /\ config.fee_recipient = "u3"
    /\ config.min_listing_duration = MaxDuration
    /\ config.max_listing_duration = 0
    /\ listings # <<>>
    /\ offers # <<>>

\* ------------------------------------------------------------------
\* Creation of listings and offers
\* ------------------------------------------------------------------

\* C19: create_listing succeeds only with price > 0, royalty_bps <= 10000 and
\* the seller owning the asset in the registry; on success the asset is owned
\* by the marketplace and a new Active listing with the given terms is stored.
\* Hence every stored listing has price > 0 and royalty_bps <= 10000.
C19_CreateListingChecked ==
    /\ [](\A l \in DOMAIN listings :
            listings[l].price > 0 /\ listings[l].royalty_bps <= 10000)
    /\ [][\A seller \in Users, token_id \in TokenIds, price \in ListingPriceInputs,
             terms \in ListingTermsInputs :
             create_listing(seller, token_id, price, terms[1], terms[2]) =>
                 /\ price > 0
                 /\ terms[2] <= 10000
                 /\ owner[token_id] = seller
                 /\ owner'[token_id] = Contract
                 /\ Has(listings', listing_count')
                 /\ listings'[listing_count'] =
                       [listing_id |-> listing_count', seller |-> seller, asset |-> token_id,
                        price |-> price, status |-> "Active", creator |-> terms[1],
                        royalty_bps |-> terms[2]]
                 /\ InIndex(active_listings', listing_count')
                 /\ balance' = balance
       ]_vars

\* A listing has been created: it is Active and its asset is in escrow.
C19_Witness ==
    \E l \in DOMAIN listings :
        /\ listings[l].status = "Active"
        /\ listings[l].royalty_bps = 5000
        /\ listings[l].price = MaxPrice
        /\ owner[listings[l].asset] = Contract

\* What a successful create_offer was given and has done.
CreateOfferEffects(buyer, listing_id, price, expiration_time) ==
    /\ Has(listings, listing_id)
    /\ listings[listing_id].status = "Active"
    /\ listings[listing_id].seller # buyer
    /\ price > 0
    /\ expiration_time # NoExpiration => expiration_time > now
    /\ Has(offers', offer_count')
    /\ offers'[offer_count'] =
          [offer_id |-> offer_count', listing_id |-> listing_id, buyer |-> buyer,
           price |-> price, status |-> "Open", expiration_time |-> expiration_time]
    /\ InIndex(offers_by_listing'[listing_id], offer_count')
    /\ balance'[buyer] = balance[buyer] - price
    /\ balance'[Contract] = balance[Contract] + price
    /\ \A a \in Accounts \ {buyer, Contract} : balance'[a] = balance[a]

\* The part of C20 that is about the call itself, with expirations before,
\* at and after the current time: it holds under SpecTimed and under Spec.
C20_CreateOfferChecked ==
    [][\A buyer \in Users, listing_id \in ListingIds, price \in PriceInputs,
          expiration_time \in TimedExpirationInputs :
          create_offer(buyer, listing_id, price, expiration_time) =>
              CreateOfferEffects(buyer, listing_id, price, expiration_time)
      ]_vars

\* The funds of every Open offer are in the marketplace's custody.
OpenOffersFunded ==
    balance[Contract] >= SumPrices({o \in DOMAIN offers : offers[o].status = "Open"})

\* C20: create_offer succeeds only on an existing Active listing, for a buyer
\* other than its seller, with price > 0 and an expiration (if given) strictly
\* later than the current time; on success an Open offer is stored and indexed
\* under the listing and exactly price has moved from the buyer to the
\* marketplace. No Open offer exists without its funds in escrow.
C20_CreateOfferEscrows ==
    /\ []OpenOffersFunded
    /\ [][\A buyer \in Users, listing_id \in ListingIds, price \in PriceInputs,
             expiration_time \in TimedExpirationInputs :
             create_offer(buyer, listing_id, price, expiration_time) =>
                 CreateOfferEffects(buyer, listing_id, price, expiration_time)
       ]_vars

\* ------------------------------------------------------------------
\* Resolution of offers
\* ------------------------------------------------------------------

\* C21: accept_offer fails whenever the offer is not Open or its listing is not
\* Active: every successful accept_offer is of an Open offer on an Active listing.
C21_AcceptOfferNeedsOpenAndActive ==
    [][\A seller \in Users, offer_id \in OfferIds :
          accept_offer(seller, offer_id) =>
              /\ offers[offer_id].status = "Open"
              /\ listings[offers[offer_id].listing_id].status = "Active"
      ]_vars

\* An offer was accepted by accept_offer (no counter-offer exists), and an Open
\* offer stands on a listing that is no longer Active.
C21_Witness ==
    /\ counter_offers = <<>>
    /\ \E o \in DOMAIN offers : offers[o].status = "Accepted"
    /\ \E o \in DOMAIN offers :
          /\ offers[o].status = "Open"
          /\ listings[offers[o].listing_id].status # "Active"

\* What a successful create_counter_offer has checked and done.
CreateCounterOfferEffects(seller, offer_id, price, expiration_time) ==
    LET id == counter_offer_count'
    IN  /\ offers[offer_id].status = "Open"
        /\ price > 0
        /\ expiration_time # NoExpiration => expiration_time > now
        /\ Has(counter_offers', id)
        /\ counter_offers'[id].offer_id = offer_id
        /\ counter_offers'[id].seller = seller
        /\ counter_offers'[id].price = price
        /\ counter_offers'[id].expiration_time = expiration_time
        /\ InIndex(counter_offers_by_offer'[offer_id], id)
        /\ offers'[offer_id] = [offers[offer_id] EXCEPT !.status = "Countered"]
        /\ balance' = balance

\* The part of C22 that is about the call itself, with expirations before, at
\* and after the current time.
C22_CreateCounterOfferChecked ==
    [][\A seller \in Users, offer_id \in OfferIds, price \in PriceInputs,
          expiration_time \in TimedExpirationInputs :
          create_counter_offer(seller, offer_id, price, expiration_time) =>
              CreateCounterOfferEffects(seller, offer_id, price, expiration_time)
      ]_vars

\* A countered offer is closed to everything but its counter's acceptance.
CounteredStaysClosed(offer_id) ==
    (Has(offers, offer_id) /\ offers[offer_id].status = "Countered") =>
        /\ offers'[offer_id].status \in {"Countered", "Accepted"}
        /\ \A caller \in Users :
              /\ ~accept_offer(caller, offer_id)
              /\ ~reject_offer(caller, offer_id)
              /\ ~cancel_offer(caller, offer_id)
              /\ \A price \in PriceInputs, expiration_time \in TimedExpirationInputs :
                    ~create_counter_offer(caller, offer_id, price, expiration_time)

\* C22: create_counter_offer succeeds only against an Open offer, with price > 0
\* and an expiration (if given) strictly later than the current time; it stores
\* the counter-offer, indexes it under the offer and sets the parent offer to
\* Countered, moving no funds. From then on the offer is never Open again:
\* accept_offer, reject_offer, cancel_offer and create_counter_offer on it fail.
C22_CounterClosesOffer ==
    [][/\ \A seller \in Users, offer_id \in OfferIds, price \in PriceInputs,
             expiration_time \in TimedExpirationInputs :
             create_counter_offer(seller, offer_id, price, expiration_time) =>
                 CreateCounterOfferEffects(seller, offer_id, price, expiration_time)
       /\ \A offer_id \in OfferIds : CounteredStaysClosed(offer_id)
      ]_vars

\* The seller recorded on the listing an offer was made on
SellerOf(offer_id) == listings[offers[offer_id].listing_id].seller

\* C23: cancel_listing, accept_offer, reject_offer and create_counter_offer
\* succeed only for the seller recorded on the (offer's) listing; cancel_offer
\* and accept_counter_offer succeed only for the buyer recorded on the
\* (original) offer. A call by anyone else changes nothing.
C23_RoleChecks ==
    [][\A caller \in Users :
          /\ \A listing_id \in ListingIds :
                cancel_listing(caller, listing_id) => listings[listing_id].seller = caller
          /\ \A offer_id \in OfferIds :
                /\ accept_offer(caller, offer_id) => SellerOf(offer_id) = caller
                /\ reject_offer(caller, offer_id) => SellerOf(offer_id) = caller
                /\ \A price \in PriceInputs, expiration_time \in ExpirationInputs :
                      create_counter_offer(caller, offer_id, price, expiration_time)
                          => SellerOf(offer_id) = caller
                /\ cancel_offer(caller, offer_id) => offers[offer_id].buyer = caller
          /\ \A counter_offer_id \in CounterIds :
                accept_counter_offer(caller, counter_offer_id) =>
                    offers[counter_offers[counter_offer_id].offer_id].buyer = caller
      ]_vars

\* A seller has rejected one offer and countered another, and the buyer has
\* accepted the counter-offer.
C23_Witness ==
    /\ \E o \in DOMAIN offers : offers[o].status = "Rejected"
    /\ \E c \in DOMAIN counter_offers :
          offers[counter_offers[c].offer_id].status = "Accepted"

\* ------------------------------------------------------------------
\* Atomicity and payouts
\* ------------------------------------------------------------------
RECURSIVE SumBalances(_, _)
SumBalances(bal, accounts) ==
    IF accounts = {} THEN 0
    ELSE LET a == CHOOSE x \in accounts : TRUE
         IN  bal[a] + SumBalances(bal, accounts \ {a})

\* C24: a call of which any step fails, a validation or a collaborator's
\* transfer, leaves no trace: whenever create_offer has stored an offer the
\* buyer could pay and the price has reached the marketplace, whenever buy has
\* marked a listing Sold the buyer could pay and has received the asset from
\* the marketplace, and no step of any entry point creates or loses tokens.
C24_AllOrNothing ==
    [][/\ \A buyer \in Users, listing_id \in ListingIds, price \in PriceInputs,
             expiration_time \in ExpirationInputs :
             create_offer(buyer, listing_id, price, expiration_time) =>
                 /\ balance[buyer] >= price
                 /\ balance'[buyer] = balance[buyer] - price
                 /\ balance'[Contract] = balance[Contract] + price
       /\ \A buyer \in Users, listing_id \in ListingIds :
             buy(buyer, listing_id) =>
                 /\ balance[buyer] >= listings[listing_id].price
                 /\ owner[listings[listing_id].asset] = Contract
                 /\ owner'[listings[listing_id].asset] = buyer
       /\ SumBalances(balance', Accounts) = SumBalances(balance, Accounts)
      ]_vars

\* A buyer with an Open offer in escrow can afford neither the price of an
\* Active listing nor a further offer at the highest price: both calls would
\* fail at the token transfer.
C24_Witness ==
    \E l \in DOMAIN listings, b \in Users :
        /\ listings[l].status = "Active"
        /\ listings[l].seller # b
        /\ balance[b] < listings[l].price
        /\ balance[b] < MaxPrice
        /\ \E o \in DOMAIN offers : offers[o].buyer = b /\ offers[o].status = "Open"

\* What a sale of `listing` at `price` to `buyer` has done with the royalty:
\* the creator, if recorded, has received it; otherwise no creator account has
\* received anything. Either way the seller, when part of no other transfer of
\* the call, has received the price less fee and royalty.
RoyaltySettled(listing, price, buyer, accepted) ==
    LET payouts == calculate_payouts(price, config.fee_bps, listing.royalty_bps)
    IN  /\ payouts[1] = price - payouts[2] - payouts[3]
        /\ IF listing.creator # NoAddress
           THEN balance'[listing.creator] = balance[listing.creator] + payouts[3]
           ELSE \A a \in Accounts \ (Users \cup {config.fee_recipient, Contract}) :
                    balance'[a] = balance[a]
        /\ (/\ listing.seller # buyer
            /\ listing.seller # config.fee_recipient
            /\ RefundOwed(listing.seller, listing.listing_id, accepted) = 0)
           => balance'[listing.seller] = balance[listing.seller] + payouts[1]

\* C25: in buy, accept_offer and accept_counter_offer the royalty amount goes
\* to the listing's creator when one is recorded; when none is recorded it is
\* still deducted from the seller's payout and is transferred to no one: after a
\* buy it is what the marketplace keeps of the price.
C25_RoyaltyOnlyToCreator ==
    [][/\ \A buyer \in Users, listing_id \in ListingIds :
             buy(buyer, listing_id) =>
                 LET listing == listings[listing_id]
                     payouts == calculate_payouts(listing.price, config.fee_bps,
                                                  listing.royalty_bps)
                 IN  /\ balance'[listing.seller] = balance[listing.seller] + payouts[1]
                     /\ balance'[config.fee_recipient]
                            = balance[config.fee_recipient] + payouts[2]
                     /\ IF listing.creator # NoAddress
                        THEN /\ balance'[listing.creator] = balance[listing.creator] + payouts[3]
                             /\ balance'[Contract] = balance[Contract]
                        ELSE /\ balance'[Creator] = balance[Creator]
                             /\ balance'[Contract] = balance[Contract] + payouts[3]
       /\ \A seller \in Users, offer_id \in OfferIds :
             accept_offer(seller, offer_id) =>
                 RoyaltySettled(listings[offers[offer_id].listing_id], offers[offer_id].price,
                                offers[offer_id].buyer, offer_id)
       /\ \A buyer \in Users, c \in CounterIds :
             accept_counter_offer(buyer, c) =>
                 LET offer == offers[counter_offers[c].offer_id]
                 IN  counter_offers[c].seller = listings[offer.listing_id].seller
                     => RoyaltySettled(listings[offer.listing_id], counter_offers[c].price,
                                       buyer, counter_offers[c].offer_id)
      ]_vars

\* Both cases have happened: a creator has been paid a royalty, and a listing
\* with a royalty rate and no creator is Sold with the royalty left in the
\* marketplace, which holds no offer's funds.
C25_Witness ==
    /\ balance[Creator] > 0
    /\ offers = <<>>
    /\ balance[Contract] > 0
    /\ \E l \in DOMAIN listings :
          /\ listings[l].status = "Sold"
          /\ listings[l].creator = NoAddress
          /\ listings[l].royalty_bps > 0

\* ------------------------------------------------------------------
\* Expiration
\* ------------------------------------------------------------------
\* The current time is past the expiration of a record.
Expired(record) ==
    record.expiration_time # NoExpiration /\ now > record.expiration_time

\* accept_offer and accept_counter_offer succeed only up to and including the
\* expiration of the offer or counter-offer, and the passing of time alone
\* changes no offer and moves no funds.
C26_DeadlineInclusive ==
    [][/\ \A seller \in Users, offer_id \in OfferIds :
             accept_offer(seller, offer_id) => ~Expired(offers[offer_id])
       /\ \A buyer \in Users, c \in CounterIds :
             accept_counter_offer(buyer, c) => ~Expired(counter_offers[c])
       /\ Tick => (offers' = offers /\ counter_offers' = counter_offers
                   /\ balance' = balance)
      ]_vars

\* An Open offer can be accepted by the listing's seller at any time up to and
\* including its expiration, while the listing is Active.
C26_AcceptableUntilDeadline ==
    \A o \in DOMAIN offers :
        (/\ offers[o].status = "Open"
         /\ ~Expired(offers[o])
         /\ Has(listings, offers[o].listing_id)
         /\ listings[offers[o].listing_id].status = "Active"
         /\ config.set)
        => accept_offer_calls(SellerOf(o), o).ok

\* An expired Open offer can still be cancelled by its buyer and rejected by
\* the listing's seller.
C26_ExpiredStillRefundable ==
    \A o \in DOMAIN offers :
        (/\ offers[o].status = "Open"
         /\ Expired(offers[o])
         /\ Has(listings, offers[o].listing_id))
        => /\ ENABLED cancel_offer(offers[o].buyer, o)
           /\ ENABLED reject_offer(SellerOf(o), o)

\* C26: expiration is checked only at resolution. Past its expiration an offer
\* (or counter-offer) cannot be accepted; up to and including it, it can. An
\* expired Open offer is never purged: it stays Open with its funds in escrow,
\* and cancel_offer and reject_offer still succeed on it and refund it.
C26_ExpirationAtResolutionOnly ==
    /\ C26_DeadlineInclusive
    /\ []C26_AcceptableUntilDeadline
    /\ []C26_ExpiredStillRefundable
    /\ [](\A o \in DOMAIN offers :
              (offers[o].status = "Open" /\ Expired(offers[o])) => OpenOffersFunded)

\* ------------------------------------------------------------------
\* Notifications
\* ------------------------------------------------------------------
\* A successful call of one of the entry points that create or resolve a
\* listing, an offer or a counter-offer
MarketCall ==
    \/ CreateListing
    \/ Buy
    \/ CancelListing
    \/ CreateOffer
    \/ AcceptOffer
    \/ RejectOffer
    \/ CancelOffer
    \/ CreateCounterOffer
    \/ AcceptCounterOffer

\* C27: every successful create_listing, buy, accept_offer,
\* accept_counter_offer, cancel_listing, create_offer, reject_offer,
\* cancel_offer and create_counter_offer publishes a notification of the
\* marketplace, and nothing is published otherwise.
C27_EveryCallNotifies ==
    [][/\ MarketCall => Len(events') = Len(events) + 1
       /\ ~MarketCall => events' = events
      ]_vars

\* ------------------------------------------------------------------
\* Frame of reject_offer and cancel_offer
\* ------------------------------------------------------------------
\* Nothing but the status of offer `offer_id` and the balances of its buyer and
\* of the marketplace has changed.
OnlyOfferResolved(offer_id, status) ==
    /\ offers' = Put(offers, offer_id, [offers[offer_id] EXCEPT !.status = status])
    /\ \A o \in DOMAIN offers \ {offer_id} : offers'[o] = offers[o]
    /\ \A a \in Accounts \ {offers[offer_id].buyer, Contract} : balance'[a] = balance[a]
    /\ listings' = listings
    /\ owner' = owner
    /\ counter_offers' = counter_offers
    /\ active_listings' = active_listings
    /\ offers_by_listing' = offers_by_listing
    /\ counter_offers_by_offer' = counter_offers_by_offer
    /\ <<listing_count, offer_count, counter_offer_count>>'
           = <<listing_count, offer_count, counter_offer_count>>
    /\ price_history' = price_history

\* C33: reject_offer and cancel_offer change only the targeted offer's status
\* and the token balances of that offer's buyer and of the marketplace: the
\* listing keeps its status, the asset stays where it is, and every other offer
\* and counter-offer is unchanged.
C33_ResolveOfferFrame ==
    [][\A caller \in Users, offer_id \in OfferIds :
          /\ reject_offer(caller, offer_id) => OnlyOfferResolved(offer_id, "Rejected")
          /\ cancel_offer(caller, offer_id) => OnlyOfferResolved(offer_id, "Cancelled")
      ]_vars

\* One offer on an Active listing was rejected and another was cancelled by its
\* buyer; the listing is still Active with its asset in escrow.
C33_Witness ==
    \E l \in DOMAIN listings, r \in DOMAIN offers, c \in DOMAIN offers :
        /\ listings[l].status = "Active"
        /\ owner[listings[l].asset] = Contract
        /\ offers[r].listing_id = l /\ offers[r].status = "Rejected"
        /\ offers[c].listing_id = l /\ offers[c].status = "Cancelled"

\* ------------------------------------------------------------------
\* Indexes, solvency and the counter path
\* ------------------------------------------------------------------
RECURSIVE Occurrences(_, _)
Occurrences(index, id) ==
    IF index = <<>> THEN 0
    ELSE (IF Head(index) = id THEN 1 ELSE 0) + Occurrences(Tail(index), id)

\* C34: the active-listings index holds exactly the ids of the listings whose
\* status is Active, each once, and every stored offer id is exactly once in
\* the offers-by-listing index of its own listing and in no other.
C34_IndexesConsistent ==
    /\ \A l \in ListingIds :
          Occurrences(active_listings, l)
              = IF Has(listings, l) /\ listings[l].status = "Active" THEN 1 ELSE 0
    /\ \A o \in DOMAIN offers, l \in DOMAIN offers_by_listing :
          Occurrences(offers_by_listing[l], o)
              = IF l = offers[o].listing_id THEN 1 ELSE 0

\* C35: the marketplace's token balance is at least the sum of the prices of
\* all offers in status Open or Countered, so no settlement or refund is paid
\* out of another buyer's escrowed funds.
C35_EscrowSolvent ==
    balance[Contract] >= SumPrices(EscrowedOffers)

\* The offer a counter-offer was made on
ParentOf(counter_offer_id) == offers[counter_offers[counter_offer_id].offer_id]

\* C36: accept_counter_offer succeeds only when the parent offer is Countered
\* and the parent listing is Active; so a counter-offer is accepted at most once
\* and never after its listing has been sold or cancelled.
C36_CounterAcceptNeedsCounteredAndActive ==
    [][\A buyer \in Users, c \in CounterIds :
          accept_counter_offer(buyer, c) =>
              /\ ParentOf(c).status = "Countered"
              /\ listings[ParentOf(c).listing_id].status = "Active"
      ]_vars

\* Some call that refunds or settles offer `o` can succeed now: for an Open
\* offer its cancellation, rejection or acceptance (the refund loops of
\* cancel_listing and of an acceptance need what cancel_offer needs and more),
\* for a Countered offer the acceptance of one of its counter-offers.
Releasable(o) ==
    \/ ENABLED cancel_offer(offers[o].buyer, o)
    \/ \E seller \in Users : ENABLED reject_offer(seller, o)
    \/ \E seller \in Users : ENABLED accept_offer(seller, o)
    \/ \E c \in DOMAIN counter_offers :
          /\ counter_offers[c].offer_id = o
          /\ ENABLED accept_counter_offer(offers[o].buyer, c)

\* C37: in an initialized marketplace, for each offer whose price is held in
\* escrow (status Open or Countered), also on a listing that has been sold or
\* cancelled, some call that returns the funds to the buyer or settles them is
\* able to succeed.
C37_EscrowNeverLocked ==
    config.set => \A o \in EscrowedOffers : Releasable(o)

\* The Active listings of an asset
ActiveListingsOf(token_id) ==
    {l \in DOMAIN listings : listings[l].asset = token_id /\ listings[l].status = "Active"}

\* C38: there is at most one Active listing per asset: an asset held in escrow
\* for an Active listing cannot be listed again until that listing is sold or
\* cancelled.
C38_OneActiveListingPerAsset ==
    \A token_id \in TokenIds : Cardinality(ActiveListingsOf(token_id)) <= 1

\* The split of a sale of `listing` at `price` under the stored config
PayoutsOf(listing, price) ==
    calculate_payouts(price, config.fee_bps, listing.royalty_bps)

\* Every successful settlement has paid the seller a non-negative amount.
C39_SettledPayoutNonNegative ==
    [][/\ \A buyer \in Users, listing_id \in ListingIds :
             buy(buyer, listing_id) =>
                 PayoutsOf(listings[listing_id], listings[listing_id].price)[1] >= 0
       /\ \A seller \in Users, offer_id \in OfferIds :
             accept_offer(seller, offer_id) =>
                 PayoutsOf(listings[offers[offer_id].listing_id], offers[offer_id].price)[1] >= 0
       /\ \A buyer \in Users, c \in CounterIds :
             accept_counter_offer(buyer, c) =>
                 PayoutsOf(listings[ParentOf(c).listing_id], counter_offers[c].price)[1] >= 0
      ]_vars

\* For every stored listing and the stored config, fee and royalty together do
\* not exceed the listing's price.
C39_FeePlusRoyaltyWithinPrice ==
    config.set =>
        \A l \in DOMAIN listings :
            LET payouts == PayoutsOf(listings[l], listings[l].price)
            IN  payouts[2] + payouts[3] <= listings[l].price

\* C39: in every settlement through buy, accept_offer or accept_counter_offer
\* the seller's payout is non-negative: for every creatable listing and every
\* reachable config, fee_amount + royalty_amount never exceeds the sale price.
C39_SellerPayoutNonNegative ==
    /\ C39_SettledPayoutNonNegative
    /\ []C39_FeePlusRoyaltyWithinPrice

\* C40: create_counter_offer fails when the offer's listing is no longer
\* Active: an Open offer left on a Sold or Cancelled listing is never moved to
\* Countered.
C40_CounterNeedsActiveListing ==
    [][\A seller \in Users, offer_id \in OfferIds, price \in PriceInputs,
          expiration_time \in ExpirationInputs :
          create_counter_offer(seller, offer_id, price, expiration_time) =>
              listings[offers[offer_id].listing_id].status = "Active"
      ]_vars

\* ------------------------------------------------------------------
\* Daily rewards
\* ------------------------------------------------------------------
\* The user has claimed successfully before.
HasClaimed(user) == user_streak[user].total_logins > 0

\* Ledgers between the user's previous claim and the ledger of a call
LedgersSince(user, current_ledger) ==
    current_ledger - user_streak[user].last_claim_ledger

\* can_claim answers what claim_daily does, at every ledger tried.
C28_CanClaimAgrees ==
    \A user \in RewardUsers, step \in LedgerSteps :
        can_claim(user, sequence + step) <=> ENABLED claim_daily(user, sequence + step)

\* C28: claim_daily succeeds only for a user who never claimed or whose previous
\* successful claim is at least 17280 ledgers back, at whatever ledger that
\* previous claim happened; can_claim is true exactly when claim_daily succeeds.
C28_OneClaimPerDay ==
    /\ []C28_CanClaimAgrees
    /\ [][\A user \in RewardUsers, step \in LedgerSteps :
             claim_daily(user, sequence + step) =>
                 \/ ~HasClaimed(user)
                 \/ LedgersSince(user, sequence + step) >= DAY_IN_LEDGERS
       ]_vars

\* No streak is above the cap.
C29_StreakCapped ==
    \A user \in RewardUsers : user_streak[user].current_streak <= MAX_STREAK_DAYS

\* C29: a user's first claim sets the streak to 1; a later claim 17280 to 25920
\* ledgers after the previous one raises it by one, capped at 30; a claim later
\* than that resets it to 1; the streak never exceeds 30.
C29_StreakRule ==
    /\ []C29_StreakCapped
    /\ [][\A user \in RewardUsers, step \in LedgerSteps :
             claim_daily(user, sequence + step) =>
                 LET since == LedgersSince(user, sequence + step)
                     old == user_streak[user].current_streak
                     new == user_streak'[user].current_streak
                 IN  /\ ~HasClaimed(user) => new = 1
                     /\ (HasClaimed(user) /\ since >= DAY_IN_LEDGERS
                            /\ since <= DAY_IN_LEDGERS + GRACE_PERIOD_LEDGERS)
                        => new = Min(old + 1, MAX_STREAK_DAYS)
                     /\ (HasClaimed(user)
                            /\ since > DAY_IN_LEDGERS + GRACE_PERIOD_LEDGERS)
                        => new = 1
       ]_vars

\* C30: whenever a claim succeeds, the reward it returns is the one
\* preview_next_reward announced for that user at the same ledger, for new users
\* and for users with any previous claim.
C30_PreviewIsClaimReward ==
    [][\A user \in RewardUsers, step \in LedgerSteps :
          claim_daily(user, sequence + step) =>
              /\ can_claim(user, sequence + step)
              /\ reward' = preview_next_reward(user, sequence + step)
      ]_vars

\* ------------------------------------------------------------------
\* Achievement NFT registry
\* ------------------------------------------------------------------
ExistingTokens == {token_id \in AchievementIds : achievement[token_id] # NoAchievement}

CountIn(seq, x) == Cardinality({i \in 1..Len(seq) : seq[i] = x})

\* total_supply is the number of tokens that exist.
SupplyCountsTokens == total_supply = Cardinality(ExistingTokens)

\* Every existing token is exactly once in its owner's collection and in no
\* other collection.
CollectionsMatchOwners ==
    \A token_id \in ExistingTokens, a \in Users :
        CountIn(get_collection(a), token_id) = IF a = owner_of(token_id) THEN 1 ELSE 0

\* A transfer or a burn that succeeds carries the authorization of the token's
\* owner at the time of the call.
OwnerOnly ==
    /\ \A caller \in Users, from \in Users, to \in Users, token_id \in AchievementIds :
          transfer(caller, from, to, token_id) =>
              /\ token_id \in ExistingTokens
              /\ caller = owner_of(token_id)
    /\ \A caller \in Users, token_id \in AchievementIds :
          burn(caller, token_id) =>
              /\ token_id \in ExistingTokens
              /\ caller = owner_of(token_id)

\* The counter starts at 1 and never goes back, and a token comes into
\* existence only under the counter's value, which the same step increments: an
\* id, once assigned, stays below the counter and is never assigned again.
SequentialIds ==
    /\ next_token_id' >= next_token_id
    /\ next_token_id = NoValue => next_token_id' \in {NoValue, 1}
    /\ \A token_id \in AchievementIds :
          (token_id \notin ExistingTokens /\ achievement'[token_id] # NoAchievement) =>
              /\ token_id = next_token_id
              /\ next_token_id' = token_id + 1

\* C31: after any sequence of mint, transfer and burn, total_supply is the
\* number of existing tokens, every existing token id is exactly once in the
\* collection of its owner_of address and in no other, only the current owner
\* transfers or burns a token, and ids are assigned sequentially from 1 and
\* never reused after a burn.
C31_RegistryConsistent ==
    /\ [](SupplyCountsTokens /\ CollectionsMatchOwners)
    /\ [][OwnerOnly /\ SequentialIds]_vars

\* Token 2 has been burned, token 3 minted after it, and token 1 has come to
\* u1 by a transfer after token 3.
C31_Witness ==
    /\ achievement[2] = NoAchievement
    /\ next_token_id = 4
    /\ total_supply = 2
    /\ get_collection("u1") = <<3, 1>>

\* ------------------------------------------------------------------
\* Reputation
\* ------------------------------------------------------------------
\* `from` has given `to` a feedback less than min_feedback_gap seconds ago.
RecentFeedback(from, to) ==
    \E i \in 1..Len(feedback[to]) :
        /\ feedback[to][i].from = from
        /\ now - feedback[to][i].timestamp < reputation_config.min_feedback_gap

\* A record_feedback within the gap returns RateLimitExceeded.
RateLimited ==
    \A from \in Players, to \in Players :
        RecentFeedback(from, to) => record_feedback_check(from, to) = "RateLimitExceeded"

\* Two recorded feedbacks of one sender to one recipient are at least
\* min_feedback_gap apart.
FeedbacksApart ==
    \A to \in Players :
        \A i \in 1..Len(feedback[to]), j \in 1..Len(feedback[to]) :
            (i < j /\ feedback[to][i].from = feedback[to][j].from) =>
                feedback[to][j].timestamp - feedback[to][i].timestamp
                    >= reputation_config.min_feedback_gap

\* No step records a feedback, or changes the recipient's reputation, for a
\* sender within the gap.
NothingRecordedWithinGap ==
    \A caller \in Players, from \in Players, to \in Players, is_positive \in BOOLEAN,
       weight \in WeightInputs :
        record_feedback(caller, from, to, is_positive, weight) => ~RecentFeedback(from, to)

\* C32: record_feedback from A to B is rejected with RateLimitExceeded,
\* recording no feedback and leaving B's reputation unchanged, whenever A gave B
\* a feedback less than min_feedback_gap seconds earlier; any two recorded
\* feedbacks from one sender to one recipient are at least min_feedback_gap apart.
C32_FeedbackRateLimited ==
    /\ [](RateLimited /\ FeedbacksApart)
    /\ [][NothingRecordedWithinGap]_vars

\* With a gap of 2, u1 gave u2 a feedback at time 0 and, once the gap had
\* passed, another at time 2; at time 3 a third one is rejected.
C32_Witness ==
    /\ reputation_config.min_feedback_gap = 2
    /\ Len(feedback["u2"]) = 2
    /\ feedback["u2"][1].from = "u1" /\ feedback["u2"][1].timestamp = 0
    /\ feedback["u2"][2].from = "u1" /\ feedback["u2"][2].timestamp = 2
    /\ now = 3
    /\ record_feedback_check("u1", "u2") = "RateLimitExceeded"

====
